---- MODULE Spec2Model ----
(***************************************************************************)
(* Artifact registry: the service facade (Upload, Pull, Delete, Get,       *)
(* AddTag, RemoveTag) over the metadata store (tables artifacts and tags)  *)
(* and the blob backend (in-memory registry).                              *)
(***************************************************************************)
EXTENDS Integers, Sequences, FiniteSets, TLC

VARIABLES
    artifacts,  \* table "artifacts": rows [fqn, hash, pulls]
    tags,       \* table "tags": rows [fqn, hash, tag]
    blobs,      \* MemoryRegistry.artifacts: key -> content
    last,       \* request and response of the last completed call
    clients     \* the Upload handlers that run concurrently, one per client

vars == <<artifacts, tags, blobs, last, clients>>

----------------------------------------------------------------------------
(* Bounds of the model *)

\* largest content, in blocks of 1 MiB
MaxBlocks == 4
\* longest initial tag list of an Upload
MaxTags == 2
\* cap on pulls_count per artifact
MaxPulls == 1
\* SpecPull: longest content in blocks, artifacts held, pulls counted and
\* the last Send that may fail
MaxPullBlocks == 4
MaxArtifacts == 1
MaxPullCount == 2
MaxFailAt == 2

\* pull chunk size, in blocks of 1 MiB (1024 * 1024 * 3 bytes)
ChunkSize == 3

\* the FQN of the facade runs
FQNs == { [source |-> "github", author |-> "alice", name |-> "app"] }

\* the FQNs of the metadata-store runs
StoreFQNs == { [source |-> "github", author |-> "alice", name |-> "app"],
               [source |-> "gitlab", author |-> "alice", name |-> "app"] }

Tags == {"latest", "stable"}

Blocks(n) == [i \in 1..n |-> i]

Contents == {Blocks(1), Blocks(MaxBlocks)}

TagLists == UNION {[1..n -> Tags] : n \in 0..MaxTags}

----------------------------------------------------------------------------
(* Content hash: hex SHA-256, an injective function of the bytes *)

Sha256Hex(content) == <<"sha256", content>>

Hashes == {Sha256Hex(c) : c \in Contents}

\* a well-formed hash that no stored content has
NoSuchHash == <<"sha256", <<0>>>>

\* the empty string given as a version hash
EmptyHash == <<>>

----------------------------------------------------------------------------
(* Metadata store *)

RowsOf(A, fqn, hash) == {a \in A : a.fqn = fqn /\ a.hash = hash}

TagsOfArtifact(T, fqn, hash) == {t \in T : t.fqn = fqn /\ t.hash = hash}

TagNames(rows) == {t.tag : t \in rows}

\* translation of driver errors
wrapErrorWithDetails(err) ==
    CASE err = "nil" -> "nil"
      [] err = "ErrRecordNotFound" -> "NotFound"
      [] err = "ErrDuplicatedKey" -> "Conflict"
      [] OTHER -> "Database"

\* First row with its Tags preloaded
GetArtifactMetaByHash(A, T, fqn, hash) ==
    IF hash = EmptyHash
    THEN [err |-> "BadInput", hash |-> EmptyHash, pulls |-> 0, tags |-> {}]
    ELSE IF RowsOf(A, fqn, hash) = {}
    THEN [err |-> wrapErrorWithDetails("ErrRecordNotFound"),
          hash |-> EmptyHash, pulls |-> 0, tags |-> {}]
    ELSE LET a == CHOOSE r \in RowsOf(A, fqn, hash) : TRUE
         IN  [err |-> "nil", hash |-> a.hash, pulls |-> a.pulls,
              tags |-> TagNames(TagsOfArtifact(T, fqn, hash))]

\* Tag row of (fqn, tag), then the artifact of that row's hash
GetArtifactMetaByTag(A, T, fqn, tag) ==
    LET rows == {t \in T : t.fqn = fqn /\ t.tag = tag}
    IN  IF tag = ""
        THEN [err |-> "BadInput", hash |-> EmptyHash, pulls |-> 0, tags |-> {}]
        ELSE IF rows = {}
        THEN [err |-> wrapErrorWithDetails("ErrRecordNotFound"),
              hash |-> EmptyHash, pulls |-> 0, tags |-> {}]
        ELSE LET tagQuery == CHOOSE t \in rows : TRUE
             IN  GetArtifactMetaByHash(A, T, fqn, tagQuery.hash)

\* addTag without the delete of the existing rows of (fqn, tag)
addTag_KeepsOldRow(A, T, fqn, hash, tag) ==
    LET tagObject == [fqn |-> fqn, hash |-> hash, tag |-> tag]
    IN  IF RowsOf(A, fqn, hash) = {}
        THEN [err |-> wrapErrorWithDetails("ErrForeignKeyViolated"), tags |-> T]
        ELSE IF tagObject \in T
        THEN [err |-> wrapErrorWithDetails("ErrDuplicatedKey"), tags |-> T]
        ELSE [err |-> "nil", tags |-> T \cup {tagObject}]

\* addTag whose delete matches on the FQN alone
addTag_DeletesAllTags(A, T, fqn, hash, tag) ==
    LET tagObject == [fqn |-> fqn, hash |-> hash, tag |-> tag]
        deleted == {t \in T : t.fqn # fqn}
    IN  IF RowsOf(A, fqn, hash) = {}
        THEN [err |-> wrapErrorWithDetails("ErrForeignKeyViolated"),
              tags |-> deleted]
        ELSE [err |-> "nil", tags |-> deleted \cup {tagObject}]

\* delete the rows of (fqn, tag), then insert (fqn, hash, tag); the insert
\* needs the artifact row (foreign key) and a free primary key
addTag(A, T, fqn, hash, tag) ==
    LET tagObject == [fqn |-> fqn, hash |-> hash, tag |-> tag]
        deleted == {t \in T : ~(t.fqn = fqn /\ t.tag = tag)}
    IN  IF RowsOf(A, fqn, hash) = {}
        THEN [err |-> wrapErrorWithDetails("ErrForeignKeyViolated"),
              tags |-> deleted]
        ELSE IF tagObject \in deleted
        THEN [err |-> wrapErrorWithDetails("ErrDuplicatedKey"), tags |-> deleted]
        ELSE [err |-> "nil", tags |-> deleted \cup {tagObject}]

\* AddTag without the check that the artifact exists
DB_AddTag_NoExistenceCheck(A, T, fqn, hash, tag) ==
    IF hash = EmptyHash \/ tag = ""
    THEN [err |-> "BadInput", tags |-> T]
    ELSE addTag(A, T, fqn, hash, tag)

\* AddTag that refuses a tag that is already on the hash
DB_AddTag_RejectsExisting(A, T, fqn, hash, tag) ==
    IF hash = EmptyHash \/ tag = ""
    THEN [err |-> "BadInput", tags |-> T]
    ELSE IF Cardinality(RowsOf(A, fqn, hash)) = 0
    THEN [err |-> "NotFound", tags |-> T]
    ELSE IF [fqn |-> fqn, hash |-> hash, tag |-> tag] \in T
    THEN [err |-> wrapErrorWithDetails("ErrDuplicatedKey"), tags |-> T]
    ELSE addTag(A, T, fqn, hash, tag)

\* count the artifact rows of (fqn, hash); none: NotFound, else addTag
DB_AddTag(A, T, fqn, hash, tag) ==
    IF hash = EmptyHash \/ tag = ""
    THEN [err |-> "BadInput", tags |-> T]
    ELSE IF Cardinality(RowsOf(A, fqn, hash)) = 0
    THEN [err |-> "NotFound", tags |-> T]
    ELSE addTag(A, T, fqn, hash, tag)

RECURSIVE addTagsInTx(_, _, _, _, _)
\* the tag loop of CreateArtifactMeta, inside its transaction
addTagsInTx(A, T, fqn, hash, tagSeq) ==
    IF tagSeq = <<>> THEN [err |-> "nil", tags |-> T]
    ELSE LET r == addTag(A, T, fqn, hash, Head(tagSeq))
         IN  IF r.err # "nil" THEN r
             ELSE addTagsInTx(A, r.tags, fqn, hash, Tail(tagSeq))

\* one transaction: insert the artifact row, then every tag; any error
\* rolls the whole transaction back
DB_CreateArtifactMeta(A, T, fqn, versionHash, tagSeq) ==
    IF versionHash = EmptyHash
    THEN [err |-> "BadInput", artifacts |-> A, tags |-> T]
    ELSE IF RowsOf(A, fqn, versionHash) # {}
    THEN [err |-> wrapErrorWithDetails("ErrDuplicatedKey"),
          artifacts |-> A, tags |-> T]
    ELSE LET A1 == A \cup {[fqn |-> fqn, hash |-> versionHash, pulls |-> 0]}
             r == addTagsInTx(A1, T, fqn, versionHash, tagSeq)
         IN  IF r.err # "nil"
             THEN [err |-> r.err, artifacts |-> A, tags |-> T]
             ELSE [err |-> "nil", artifacts |-> A1, tags |-> r.tags]

\* CreateArtifactMeta whose tag statements run outside the transaction: the
\* error of insert number failAt leaves what was written before it
DB_CreateArtifactMetaTx_NoRollback(A, T, fqn, versionHash, tagSeq, failAt) ==
    IF failAt \notin 1..Len(tagSeq) \/ versionHash = EmptyHash
       \/ RowsOf(A, fqn, versionHash) # {}
    THEN DB_CreateArtifactMeta(A, T, fqn, versionHash, tagSeq)
    ELSE LET A1 == A \cup {[fqn |-> fqn, hash |-> versionHash, pulls |-> 0]}
             r == addTagsInTx(A1, T, fqn, versionHash,
                              SubSeq(tagSeq, 1, failAt - 1))
         IN  [err |-> wrapErrorWithDetails("ErrInvalidTransaction"),
              artifacts |-> A,
              tags |-> {t \in r.tags :
                           ~(t.fqn = fqn /\ t.tag = tagSeq[failAt])}]

\* CreateArtifactMeta in which the insert of tag number failAt fails in the
\* driver (failAt = 0: no failure): the tags before it have been moved and
\* the rows of tag failAt deleted when the transaction is rolled back
DB_CreateArtifactMetaTx(A, T, fqn, versionHash, tagSeq, failAt) ==
    IF failAt \notin 1..Len(tagSeq) \/ versionHash = EmptyHash
       \/ RowsOf(A, fqn, versionHash) # {}
    THEN DB_CreateArtifactMeta(A, T, fqn, versionHash, tagSeq)
    ELSE LET A1 == A \cup {[fqn |-> fqn, hash |-> versionHash, pulls |-> 0]}
             r == addTagsInTx(A1, T, fqn, versionHash,
                              SubSeq(tagSeq, 1, failAt - 1))
         IN  [err |-> IF r.err # "nil" THEN r.err
                      ELSE wrapErrorWithDetails("ErrInvalidTransaction"),
              artifacts |-> A, tags |-> T]

\* DeleteArtifactMeta on a schema without ON DELETE CASCADE
DB_DeleteArtifactMeta_NoCascade(A, T, fqn, versionHash) ==
    IF versionHash = EmptyHash
    THEN [err |-> "BadInput", artifacts |-> A, tags |-> T]
    ELSE [err |-> "nil", artifacts |-> A \ RowsOf(A, fqn, versionHash),
          tags |-> T]

\* delete by primary key; ON DELETE CASCADE removes the artifact's tags
DB_DeleteArtifactMeta(A, T, fqn, versionHash) ==
    IF versionHash = EmptyHash
    THEN [err |-> "BadInput", artifacts |-> A, tags |-> T]
    ELSE [err |-> "nil",
          artifacts |-> A \ RowsOf(A, fqn, versionHash),
          tags |-> T \ TagsOfArtifact(T, fqn, versionHash)]

\* delete the rows of (fqn, tag); deleting no row is not an error
DB_RemoveTag(T, fqn, tag) ==
    IF tag = "" THEN [err |-> "BadInput", tags |-> T]
    ELSE [err |-> "nil", tags |-> {t \in T : ~(t.fqn = fqn /\ t.tag = tag)}]

\* an update that is not restricted to the hash
DB_IncreasePullCount_EveryVersion(A, T, fqn, hash) ==
    LET artifact == GetArtifactMetaByHash(A, T, fqn, hash)
    IN  IF artifact.err # "nil" THEN [err |-> artifact.err, artifacts |-> A]
        ELSE [err |-> "nil",
              artifacts |-> {[a EXCEPT !.pulls = IF a.fqn = fqn THEN @ + 1
                                                 ELSE @] : a \in A}]

\* read the row, add one, save it
DB_IncreasePullCount(A, T, fqn, hash) ==
    LET artifact == GetArtifactMetaByHash(A, T, fqn, hash)
    IN  IF artifact.err # "nil" THEN [err |-> artifact.err, artifacts |-> A]
        ELSE [err |-> "nil",
              artifacts |-> (A \ RowsOf(A, fqn, hash)) \cup
                  {[fqn |-> fqn, hash |-> hash, pulls |-> artifact.pulls + 1]}]

----------------------------------------------------------------------------
(* Blob backend: the in-memory registry *)

\* the registry field of a Server constructed by NewServer(nil)
NilRegistry == [k \in {<<"nil">>} |-> <<>>]

\* a storage key made of the hash alone
getArtifactKey_HashOnly(fqn, versionHash) == <<versionHash>>

getArtifactKey(fqn, versionHash) ==
    <<fqn.source, fqn.author, fqn.name, versionHash>>

\* StoreArtifact that keeps one blob for an FQN, the last one stored
StoreArtifact_KeyWithoutHash(B, fqn, content) ==
    LET versionHash == Sha256Hex(content)
        key == getArtifactKey(fqn, EmptyHash)
    IN  [err |-> "nil", versionHash |-> versionHash,
         blobs |-> [k \in DOMAIN B \cup {key} |->
                        IF k = key THEN content ELSE B[k]]]

\* read everything, hash it, store under the key of the hash
StoreArtifact(B, fqn, content) ==
    LET versionHash == Sha256Hex(content)
        key == getArtifactKey(fqn, versionHash)
    IN  [err |-> "nil", versionHash |-> versionHash,
         blobs |-> [k \in DOMAIN B \cup {key} |->
                        IF k = key THEN content ELSE B[k]]]

GetArtifact(B, fqn, hash) ==
    LET key == getArtifactKey(fqn, hash)
    IN  IF key \notin DOMAIN B
        THEN [err |-> "ErrArtifactNotFound", content |-> <<>>]
        ELSE [err |-> "nil", content |-> B[key]]

\* DeleteArtifact that answers nil for a key that holds no blob
DeleteArtifact_Idempotent(B, fqn, hash) ==
    LET key == getArtifactKey(fqn, hash)
    IN  [err |-> "nil", blobs |-> [k \in DOMAIN B \ {key} |-> B[k]]]

DeleteArtifact(B, fqn, hash) ==
    LET key == getArtifactKey(fqn, hash)
    IN  IF key \notin DOMAIN B
        THEN [err |-> "failed to remove artifact", blobs |-> B]
        ELSE [err |-> "nil", blobs |-> [k \in DOMAIN B \ {key} |-> B[k]]]

----------------------------------------------------------------------------
(* Service facade *)

\* status code chosen from the cause of an error
wrapServiceError(err) ==
    CASE err = "nil" -> "OK"
      [] err = "NotFound" -> "NotFound"
      [] err = "Conflict" -> "AlreadyExists"
      [] err = "Database" -> "Internal"
      [] OTHER -> "Internal"

ByHash(h) == [kind |-> "hash", hash |-> h, tag |-> ""]
ByTag(t) == [kind |-> "tag", hash |-> EmptyHash, tag |-> t]
HashAndTag(h, t) == [kind |-> "both", hash |-> h, tag |-> t]
NoIdentifier == [kind |-> "none", hash |-> EmptyHash, tag |-> ""]

Identifiers == {ByHash(h) : h \in Hashes \cup {NoSuchHash}} \cup
               {ByTag(t) : t \in Tags}

Range(seq) == {seq[i] : i \in 1..Len(seq)}

\* the cause of the InvalidArgument error of an identifier, "nil" for a
\* non-empty hash or a non-empty tag
validateArtifactIdentifier(id) ==
    CASE id.kind = "hash" /\ id.hash = EmptyHash -> "ErrEmptyVersionHash"
      [] id.kind = "tag" /\ id.tag = "" -> "ErrEmptyTag"
      [] id.kind \notin {"hash", "tag"} -> "ErrInvalidIdentifier"
      [] OTHER -> "nil"

\* err is the cause inside the ServiceError that is returned, status its code
resolveIdentifier(A, T, fqn, id) ==
    LET invalid == validateArtifactIdentifier(id)
        artifactMeta == IF id.kind = "hash"
                        THEN GetArtifactMetaByHash(A, T, fqn, id.hash)
                        ELSE GetArtifactMetaByTag(A, T, fqn, id.tag)
    IN  IF invalid # "nil"
        THEN [status |-> "InvalidArgument", err |-> invalid,
              hash |-> EmptyHash, pulls |-> 0, tags |-> {}]
        ELSE [status |-> wrapServiceError(artifactMeta.err),
              err |-> artifactMeta.err, hash |-> artifactMeta.hash,
              pulls |-> artifactMeta.pulls, tags |-> artifactMeta.tags]

\* request and response of a facade call; prior is the set of hashes the
\* request's tag pointed to when the call began
Call(op, fqn, id, reqTags, content, status, hash, respTags, pulls, chunks, prior) ==
    [op |-> op, fqn |-> fqn, id |-> id, reqTags |-> reqTags,
     content |-> content, status |-> status, versionHash |-> hash,
     respTags |-> respTags, pulls |-> pulls, chunks |-> chunks,
     prior |-> prior]

Failed(op, fqn, id, reqTags, content, status, prior) ==
    Call(op, fqn, id, reqTags, content, status, EmptyHash, {}, 0, <<>>, prior)

PriorHashes(T, fqn, tag) == {t.hash : t \in {r \in T : r.fqn = fqn /\ r.tag = tag}}

Clients == {"c1", "c2"}

\* an Upload handler: its position, its request, the hash Store returned
\* and the status it answers with
Handler(pc, fqn, tagSeq, content, versionHash, status) ==
    [pc |-> pc, fqn |-> fqn, tagSeq |-> tagSeq, content |-> content,
     versionHash |-> versionHash, status |-> status]

Idle == Handler("idle", CHOOSE f \in FQNs : TRUE, <<>>, <<>>, EmptyHash, "")

Init ==
    /\ clients = [c \in Clients |-> Idle]
    /\ artifacts = {}
    /\ tags = {}
    /\ blobs = [k \in {} |-> <<>>]
    /\ last = Failed("Init", CHOOSE f \in FQNs : TRUE, NoIdentifier, <<>>, <<>>,
                     "OK", {})

RECURSIVE UploadTags(_, _, _, _, _)
\* the tag loop of UploadArtifact: one AddTag per tag, stopping at an error
UploadTags(A, T, fqn, versionHash, tagSeq) ==
    IF tagSeq = <<>> THEN [err |-> "nil", tags |-> T]
    ELSE LET r == DB_AddTag(A, T, fqn, versionHash, Head(tagSeq))
         IN  IF r.err # "nil" THEN r
             ELSE UploadTags(A, r.tags, fqn, versionHash, Tail(tagSeq))

\* FQN of a request that carries none
NilFQN == [source |-> "", author |-> "", name |-> "", isNil |-> TRUE]

InvalidFQNs ==
    {NilFQN,
     [source |-> "", author |-> "alice", name |-> "app"],
     [source |-> "github", author |-> "", name |-> "app"],
     [source |-> "github", author |-> "alice", name |-> ""]}

validateFQN(fqn) ==
    IF "isNil" \in DOMAIN fqn \/ fqn.source = "" \/ fqn.author = "" \/
       fqn.name = ""
    THEN "InvalidArgument" ELSE "nil"

\* how one call runs: the kind of an Upload's first message, how its receive
\* loop ends, the errors of the backend's Store, of the metadata insert and
\* of the backend's Delete, and the number of the Send of a Pull that fails
\* (0: none)
CleanRun == [first |-> "metadata", recv |-> "EOF", store |-> "nil",
             insert |-> "nil", delete |-> "nil", send |-> 0]

FaultyRuns ==
    {[CleanRun EXCEPT !.first = "content"],
     [CleanRun EXCEPT !.recv = "RecvError"],
     [CleanRun EXCEPT !.store = "IOError"],
     [CleanRun EXCEPT !.insert = "ErrInvalidTransaction"],
     [CleanRun EXCEPT !.delete = "IOError"],
     [CleanRun EXCEPT !.insert = "ErrInvalidTransaction",
                      !.delete = "IOError"]}

\* the response of an Upload together with the run that produced it
WithRun(call, run) ==
    [f \in DOMAIN call \cup {"run"} |-> IF f = "run" THEN run ELSE call[f]]

\* UploadArtifact that checks the first message but not its FQN
UploadValidate_MetadataOnly(fqn, run) ==
    IF run.first # "metadata" THEN "InvalidArgument" ELSE "nil"

\* the checks on the first message
UploadValidate(fqn, run) ==
    IF run.first # "metadata" THEN "InvalidArgument" ELSE validateFQN(fqn)

\* the producer's result: Store reads the pipe to its end; a receive error
\* closes the pipe with that error and Store returns it
UploadStore(B, fqn, content, run) ==
    IF run.recv # "EOF"
    THEN [err |-> run.recv, versionHash |-> EmptyHash, blobs |-> B]
    ELSE IF run.store # "nil"
    THEN [err |-> run.store, versionHash |-> EmptyHash, blobs |-> B]
    ELSE StoreArtifact(B, fqn, content)

\* UploadCommit that leaves the blob in place when the insert fails
UploadCommit_NoCompensation(A, T, fqn, result, run) ==
    LET meta == IF run.insert # "nil"
                THEN [err |-> wrapErrorWithDetails(run.insert),
                      artifacts |-> A, tags |-> T]
                ELSE DB_CreateArtifactMeta(A, T, fqn, result.versionHash, <<>>)
    IN  IF result.err # "nil"
        THEN [err |-> result.err, artifacts |-> A, tags |-> T,
              blobs |-> result.blobs]
        ELSE [err |-> meta.err, artifacts |-> meta.artifacts,
              tags |-> meta.tags, blobs |-> result.blobs]

\* the producer's result, then the insert of the artifact row, then the
\* blob delete if the insert failed (the delete's own error is dropped)
UploadCommit(A, T, fqn, result, run) ==
    LET meta == IF run.insert # "nil"
                THEN [err |-> wrapErrorWithDetails(run.insert),
                      artifacts |-> A, tags |-> T]
                ELSE DB_CreateArtifactMeta(A, T, fqn, result.versionHash, <<>>)
        compensated == IF run.delete # "nil" THEN result.blobs
                       ELSE DeleteArtifact(result.blobs, fqn,
                                           result.versionHash).blobs
    IN  IF result.err # "nil"
        THEN [err |-> result.err, artifacts |-> A, tags |-> T,
              blobs |-> result.blobs]
        ELSE IF meta.err # "nil"
        THEN [err |-> meta.err, artifacts |-> A, tags |-> T,
              blobs |-> compensated]
        ELSE [err |-> "nil", artifacts |-> meta.artifacts, tags |-> meta.tags,
              blobs |-> result.blobs]

\* UploadArtifact that inserts the artifact row before it awaits the
\* producer's result
UploadResult_InsertsBeforeStore(A, T, B, fqn, tagSeq, content, run) ==
    LET invalid == UploadValidate(fqn, run)
        versionHash == Sha256Hex(content)
        meta == DB_CreateArtifactMeta(A, T, fqn, versionHash, <<>>)
        result == UploadStore(B, fqn, content, run)
        tagged == UploadTags(meta.artifacts, meta.tags, fqn, versionHash, tagSeq)
        req(status) == WithRun(Failed("Upload", fqn, NoIdentifier, tagSeq,
                                      content, status, {}), run)
    IN  IF invalid # "nil"
        THEN [artifacts |-> A, tags |-> T, blobs |-> B, call |-> req(invalid)]
        ELSE IF meta.err # "nil"
        THEN [artifacts |-> A, tags |-> T, blobs |-> B,
              call |-> req(wrapServiceError(meta.err))]
        ELSE IF result.err # "nil"
        THEN [artifacts |-> meta.artifacts, tags |-> meta.tags, blobs |-> B,
              call |-> req(wrapServiceError(result.err))]
        ELSE [artifacts |-> meta.artifacts, tags |-> tagged.tags,
              blobs |-> result.blobs,
              call |-> WithRun(Call("Upload", fqn, NoIdentifier, tagSeq,
                                    content, wrapServiceError(tagged.err),
                                    versionHash, Range(tagSeq), 0, <<>>, {}),
                               run)]

\* state and response of UploadArtifact
UploadResult(A, T, B, fqn, tagSeq, content, run) ==
    LET invalid == UploadValidate(fqn, run)
        result == UploadStore(B, fqn, content, run)
        versionHash == result.versionHash
        commit == UploadCommit(A, T, fqn, result, run)
        tagged == UploadTags(commit.artifacts, commit.tags, fqn, versionHash,
                             tagSeq)
        artifact == GetArtifactMetaByHash(commit.artifacts, tagged.tags, fqn,
                                          versionHash)
        req(status) == WithRun(Failed("Upload", fqn, NoIdentifier, tagSeq,
                                      content, status, {}), run)
    IN  IF invalid # "nil"
        THEN [artifacts |-> A, tags |-> T, blobs |-> B, call |-> req(invalid)]
        ELSE IF commit.err # "nil"
        THEN [artifacts |-> commit.artifacts, tags |-> commit.tags,
              blobs |-> commit.blobs,
              call |-> req(wrapServiceError(commit.err))]
        ELSE IF tagged.err # "nil"
        THEN [artifacts |-> commit.artifacts, tags |-> tagged.tags,
              blobs |-> commit.blobs,
              call |-> req(wrapServiceError(tagged.err))]
        ELSE IF artifact.err # "nil"
        THEN [artifacts |-> commit.artifacts, tags |-> tagged.tags,
              blobs |-> commit.blobs,
              call |-> req(wrapServiceError(artifact.err))]
        ELSE [artifacts |-> commit.artifacts, tags |-> tagged.tags,
              blobs |-> commit.blobs,
              call |-> WithRun(Call("Upload", fqn, NoIdentifier, tagSeq,
                                    content, "OK", versionHash, Range(tagSeq),
                                    artifact.pulls, <<>>, {}), run)]

UploadArtifact(fqn, tagSeq, content, run) ==
    LET r == UploadResult(artifacts, tags, blobs, fqn, tagSeq, content, run)
    IN  /\ artifacts' = r.artifacts
        /\ tags' = r.tags
        /\ blobs' = r.blobs
        /\ last' = r.call
        /\ UNCHANGED clients

RECURSIVE Chunks_FullChunksOnly(_, _)
\* a send loop that stops before a short last chunk
Chunks_FullChunksOnly(content, offset) ==
    IF offset + ChunkSize <= Len(content)
    THEN <<SubSeq(content, offset + 1, offset + ChunkSize)>> \o
         Chunks_FullChunksOnly(content, offset + ChunkSize)
    ELSE <<>>

RECURSIVE Chunks_EmptyTail(_, _)
\* a send loop that runs while offset <= totalSize: an empty last message
\* after a content that is a whole number of chunks
Chunks_EmptyTail(content, offset) ==
    LET totalSize == Len(content)
        end == IF offset + ChunkSize < totalSize THEN offset + ChunkSize
               ELSE totalSize
    IN  IF offset < totalSize
        THEN <<SubSeq(content, offset + 1, end)>> \o
             (IF end = totalSize /\ end - offset = ChunkSize THEN <<<<>>>>
              ELSE Chunks_EmptyTail(content, end))
        ELSE <<>>

RECURSIVE Chunks(_, _)
\* the send loop of PullArtifact from an offset: content[offset:end] with
\* end = min(offset + ChunkSize, totalSize)
Chunks(content, offset) ==
    LET totalSize == Len(content)
        end == IF offset + ChunkSize < totalSize THEN offset + ChunkSize
               ELSE totalSize
    IN  IF offset < totalSize
        THEN <<SubSeq(content, offset + 1, end)>> \o Chunks(content, end)
        ELSE <<>>

\* PullArtifact that raises the pull count before it streams
PullResult_CountsBeforeSend(A, T, B, fqn, id, run) ==
    LET artifactMeta == resolveIdentifier(A, T, fqn, id)
        got == GetArtifact(B, fqn, artifactMeta.hash)
        versionHash == artifactMeta.hash
        chunks == Chunks(got.content, 0)
        counted == DB_IncreasePullCount(A, T, fqn, versionHash)
        req(status) == WithRun(Failed("Pull", fqn, id, <<>>, <<>>, status, {}),
                               run)
    IN  IF artifactMeta.err # "nil"
        THEN [artifacts |-> A, call |-> req(artifactMeta.status)]
        ELSE IF got.err # "nil"
        THEN [artifacts |-> A, call |-> req(wrapServiceError(got.err))]
        ELSE IF run.send \in 1..Len(chunks)
        THEN [artifacts |-> counted.artifacts,
              call |-> WithRun(Call("Pull", fqn, id, <<>>, <<>>,
                                    wrapServiceError("SendError"), versionHash,
                                    artifactMeta.tags, artifactMeta.pulls,
                                    SubSeq(chunks, 1, run.send - 1), {}), run)]
        ELSE [artifacts |-> counted.artifacts,
              call |-> WithRun(Call("Pull", fqn, id, <<>>, <<>>, "OK",
                                    versionHash, artifactMeta.tags,
                                    artifactMeta.pulls, chunks, {}), run)]

\* resolve, fetch the blob, send it chunk by chunk, then raise the pull
\* count; the Send numbered run.send fails and ends the call
PullResult(A, T, B, fqn, id, run) ==
    LET artifactMeta == resolveIdentifier(A, T, fqn, id)
        got == GetArtifact(B, fqn, artifactMeta.hash)
        versionHash == artifactMeta.hash
        chunks == Chunks(got.content, 0)
        counted == DB_IncreasePullCount(A, T, fqn, versionHash)
        req(status) == WithRun(Failed("Pull", fqn, id, <<>>, <<>>, status, {}),
                               run)
    IN  IF artifactMeta.err # "nil"
        THEN [artifacts |-> A, call |-> req(artifactMeta.status)]
        ELSE IF got.err # "nil"
        THEN [artifacts |-> A, call |-> req(wrapServiceError(got.err))]
        ELSE IF run.send \in 1..Len(chunks)
        THEN [artifacts |-> A,
              call |-> WithRun(Call("Pull", fqn, id, <<>>, <<>>,
                                    wrapServiceError("SendError"), versionHash,
                                    artifactMeta.tags, artifactMeta.pulls,
                                    SubSeq(chunks, 1, run.send - 1), {}), run)]
        ELSE [artifacts |-> counted.artifacts,
              call |-> WithRun(Call("Pull", fqn, id, <<>>, <<>>, "OK",
                                    versionHash, artifactMeta.tags,
                                    artifactMeta.pulls, chunks, {}), run)]

TotalPulls(A) ==
    LET RECURSIVE Sum(_)
        Sum(S) == IF S = {} THEN 0
                  ELSE LET a == CHOOSE x \in S : TRUE
                       IN  a.pulls + Sum(S \ {a})
    IN  Sum(A)

\* cap bounds the pull counts of the registry
PullArtifact(fqn, id, run, cap) ==
    LET r == PullResult(artifacts, tags, blobs, fqn, id, run)
    IN  /\ TotalPulls(r.artifacts) <= cap
        /\ artifacts' = r.artifacts
        /\ last' = r.call
        /\ UNCHANGED <<tags, blobs, clients>>

\* DeleteArtifact that answers OK when the backend's Delete has failed
DeleteResult_DropsDeleteError(A, T, B, fqn, id, run) ==
    LET artifactMeta == resolveIdentifier(A, T, fqn, id)
        removed == IF run.delete # "nil" THEN [err |-> run.delete, blobs |-> B]
                   ELSE DeleteArtifact(B, fqn, artifactMeta.hash)
        req(status) == WithRun(Failed("Delete", fqn, id, <<>>, <<>>, status,
                                      {}), run)
    IN  IF artifactMeta.err # "nil"
        THEN [blobs |-> B, call |-> req(wrapServiceError(artifactMeta.err))]
        ELSE [blobs |-> removed.blobs,
              call |-> WithRun(Call("Delete", fqn, id, <<>>, <<>>, "OK",
                                    artifactMeta.hash, artifactMeta.tags,
                                    artifactMeta.pulls, <<>>, {}), run)]

\* resolve, then delete the blob; run.delete is an error of the backend
DeleteResult(A, T, B, fqn, id, run) ==
    LET artifactMeta == resolveIdentifier(A, T, fqn, id)
        removed == IF run.delete # "nil" THEN [err |-> run.delete, blobs |-> B]
                   ELSE DeleteArtifact(B, fqn, artifactMeta.hash)
        req(status) == WithRun(Failed("Delete", fqn, id, <<>>, <<>>, status,
                                      {}), run)
    IN  IF artifactMeta.err # "nil"
        THEN [blobs |-> B, call |-> req(wrapServiceError(artifactMeta.err))]
        ELSE IF removed.err # "nil"
        THEN [blobs |-> B, call |-> req(wrapServiceError(removed.err))]
        ELSE [blobs |-> removed.blobs,
              call |-> WithRun(Call("Delete", fqn, id, <<>>, <<>>, "OK",
                                    artifactMeta.hash, artifactMeta.tags,
                                    artifactMeta.pulls, <<>>, {}), run)]

DeleteArtifactCall(fqn, id, run) ==
    LET r == DeleteResult(artifacts, tags, blobs, fqn, id, run)
    IN  /\ blobs' = r.blobs
        /\ last' = r.call
        /\ UNCHANGED <<artifacts, tags, clients>>

\* response of GetArtifact, reported under the name of the calling operation
GetResult(A, T, op, fqn, id, reqId, prior) ==
    LET artifactMeta == resolveIdentifier(A, T, fqn, id)
    IN  IF artifactMeta.err # "nil"
        THEN Failed(op, fqn, reqId, <<>>, <<>>, artifactMeta.status, prior)
        ELSE Call(op, fqn, reqId, <<>>, <<>>, "OK", artifactMeta.hash,
                  artifactMeta.tags, artifactMeta.pulls, <<>>, prior)

GetArtifactCall(fqn, id) ==
    /\ last' = GetResult(artifacts, tags, "Get", fqn, id, id, {})
    /\ UNCHANGED <<artifacts, tags, blobs, clients>>

AddTagResult(A, T, fqn, versionHash, tag) ==
    LET added == DB_AddTag(A, T, fqn, versionHash, tag)
        reqId == HashAndTag(versionHash, tag)
        prior == PriorHashes(T, fqn, tag)
    IN  IF added.err # "nil"
        THEN [tags |-> added.tags,
              call |-> Failed("AddTag", fqn, reqId, <<>>, <<>>,
                              wrapServiceError(added.err), prior)]
        ELSE [tags |-> added.tags,
              call |-> GetResult(A, added.tags, "AddTag", fqn,
                                 ByHash(versionHash), reqId, prior)]

AddTag(fqn, versionHash, tag) ==
    LET r == AddTagResult(artifacts, tags, fqn, versionHash, tag)
    IN  /\ tags' = r.tags
        /\ last' = r.call
        /\ UNCHANGED <<artifacts, blobs, clients>>

RemoveTagResult(A, T, fqn, versionHash, tag) ==
    LET removed == DB_RemoveTag(T, fqn, tag)
        reqId == HashAndTag(versionHash, tag)
        prior == PriorHashes(T, fqn, tag)
    IN  IF removed.err # "nil"
        THEN [tags |-> removed.tags,
              call |-> Failed("RemoveTag", fqn, reqId, <<>>, <<>>,
                              wrapServiceError(removed.err), prior)]
        ELSE [tags |-> removed.tags,
              call |-> GetResult(A, removed.tags, "RemoveTag", fqn,
                                 ByHash(versionHash), reqId, prior)]

RemoveTag(fqn, versionHash, tag) ==
    LET r == RemoveTagResult(artifacts, tags, fqn, versionHash, tag)
    IN  /\ tags' = r.tags
        /\ last' = r.call
        /\ UNCHANGED <<artifacts, blobs, clients>>

Next ==
    \/ \E fqn \in FQNs, tagSeq \in TagLists, content \in Contents :
           UploadArtifact(fqn, tagSeq, content, CleanRun)
    \/ \E fqn \in FQNs, id \in Identifiers :
           PullArtifact(fqn, id, CleanRun, MaxPulls)
    \/ \E fqn \in FQNs, id \in Identifiers :
           DeleteArtifactCall(fqn, id, CleanRun)
    \/ \E fqn \in FQNs, id \in Identifiers : GetArtifactCall(fqn, id)
    \/ \E fqn \in FQNs, h \in Hashes \cup {NoSuchHash}, tag \in Tags :
           AddTag(fqn, h, tag)
    \/ \E fqn \in FQNs, h \in Hashes \cup {NoSuchHash}, tag \in Tags :
           RemoveTag(fqn, h, tag)

Spec == Init /\ [][Next]_vars

----------------------------------------------------------------------------
(* The facade with Uploads that are invalid, aborted, or hit by an error of
   the backend or of the metadata store *)

FaultTagLists == {<<"latest">>}

NextFaults ==
    \/ \E fqn \in FQNs, tagSeq \in TagLists, content \in Contents :
           UploadArtifact(fqn, tagSeq, content, CleanRun)
    \/ \E fqn \in FQNs, id \in Identifiers,
          run \in {CleanRun, [CleanRun EXCEPT !.delete = "IOError"]} :
           DeleteArtifactCall(fqn, id, run)
    \/ \E fqn \in FQNs, tagSeq \in FaultTagLists, content \in Contents,
          run \in FaultyRuns : UploadArtifact(fqn, tagSeq, content, run)
    \/ \E fqn \in InvalidFQNs, tagSeq \in FaultTagLists, content \in Contents :
           UploadArtifact(fqn, tagSeq, content, CleanRun)

SpecFaults == Init /\ [][NextFaults]_vars

----------------------------------------------------------------------------
(* The metadata store driven through its own API (any caller, any order) *)

StoreCall(op, fqn, versionHash, tag, tagSeq, err, prior) ==
    Call(op, fqn, HashAndTag(versionHash, tag), tagSeq, <<>>, err, versionHash,
         {}, 0, <<>>, prior)

CreateArtifactMeta(fqn, versionHash, tagSeq) ==
    LET r == DB_CreateArtifactMeta(artifacts, tags, fqn, versionHash, tagSeq)
    IN  /\ artifacts' = r.artifacts
        /\ tags' = r.tags
        /\ last' = StoreCall("CreateArtifactMeta", fqn, versionHash, "", tagSeq,
                             r.err, {})
        /\ UNCHANGED <<blobs, clients>>

DeleteArtifactMeta(fqn, versionHash) ==
    LET r == DB_DeleteArtifactMeta(artifacts, tags, fqn, versionHash)
    IN  /\ artifacts' = r.artifacts
        /\ tags' = r.tags
        /\ last' = StoreCall("DeleteArtifactMeta", fqn, versionHash, "", <<>>,
                             r.err,
                             {t.hash : t \in TagsOfArtifact(tags, fqn, versionHash)})
        /\ UNCHANGED <<blobs, clients>>

StoreAddTag(fqn, versionHash, tag) ==
    LET r == DB_AddTag(artifacts, tags, fqn, versionHash, tag)
    IN  /\ tags' = r.tags
        /\ last' = StoreCall("AddTag", fqn, versionHash, tag, <<>>, r.err,
                             PriorHashes(tags, fqn, tag))
        /\ UNCHANGED <<artifacts, blobs, clients>>

StoreRemoveTag(fqn, tag) ==
    LET r == DB_RemoveTag(tags, fqn, tag)
    IN  /\ tags' = r.tags
        /\ last' = StoreCall("RemoveTag", fqn, EmptyHash, tag, <<>>, r.err,
                             PriorHashes(tags, fqn, tag))
        /\ UNCHANGED <<artifacts, blobs, clients>>

NextStore ==
    \/ \E fqn \in StoreFQNs, h \in Hashes, tagSeq \in TagLists :
           CreateArtifactMeta(fqn, h, tagSeq)
    \/ \E fqn \in StoreFQNs, h \in Hashes : DeleteArtifactMeta(fqn, h)
    \/ \E fqn \in StoreFQNs, h \in Hashes \cup {NoSuchHash}, tag \in Tags :
           StoreAddTag(fqn, h, tag)
    \/ \E fqn \in StoreFQNs, tag \in Tags : StoreRemoveTag(fqn, tag)

SpecStore == Init /\ [][NextStore]_vars

----------------------------------------------------------------------------
(* Concurrent Uploads: every handler runs UploadArtifact step by step, one
   backend or metadata call per step *)

\* initial tag lists of the concurrent uploads
ConcTagLists == {<<>>} \cup {<<t>> : t \in Tags}

\* the metadata message has been received and validated
UpStart(c, fqn, tagSeq, content) ==
    /\ clients[c].pc = "idle"
    /\ clients' = [clients EXCEPT ![c] =
                      Handler("store", fqn, tagSeq, content, EmptyHash, "")]
    /\ UNCHANGED <<artifacts, tags, blobs, last>>

\* the stream has ended and the producer's StoreArtifact returns
UpStore(c) ==
    LET h == clients[c]
        result == StoreArtifact(blobs, h.fqn, h.content)
    IN  /\ h.pc = "store"
        /\ blobs' = result.blobs
        /\ clients' = [clients EXCEPT ![c] =
               IF result.err # "nil"
               THEN Handler("done", h.fqn, h.tagSeq, h.content, EmptyHash,
                            wrapServiceError(result.err))
               ELSE Handler("meta", h.fqn, h.tagSeq, h.content,
                            result.versionHash, "")]
        /\ UNCHANGED <<artifacts, tags, last>>

\* the insert of the artifact row
UpMeta(c) ==
    LET h == clients[c]
        meta == DB_CreateArtifactMeta(artifacts, tags, h.fqn, h.versionHash,
                                      <<>>)
    IN  /\ h.pc = "meta"
        /\ artifacts' = meta.artifacts
        /\ tags' = meta.tags
        /\ clients' = [clients EXCEPT ![c] =
               IF meta.err # "nil"
               THEN Handler("compensate", h.fqn, h.tagSeq, h.content,
                            h.versionHash, wrapServiceError(meta.err))
               ELSE Handler("tags", h.fqn, h.tagSeq, h.content, h.versionHash,
                            "")]
        /\ UNCHANGED <<blobs, last>>

\* the blob delete after a failed insert; its own error is dropped
UpCompensate(c) ==
    LET h == clients[c]
    IN  /\ h.pc = "compensate"
        /\ blobs' = DeleteArtifact(blobs, h.fqn, h.versionHash).blobs
        /\ clients' = [clients EXCEPT ![c] =
               Handler("done", h.fqn, h.tagSeq, h.content, h.versionHash,
                       h.status)]
        /\ UNCHANGED <<artifacts, tags, last>>

\* one turn of the tag loop
UpTag(c) ==
    LET h == clients[c]
        added == DB_AddTag(artifacts, tags, h.fqn, h.versionHash,
                           Head(h.tagSeq))
    IN  /\ h.pc = "tags"
        /\ h.tagSeq # <<>>
        /\ tags' = added.tags
        /\ clients' = [clients EXCEPT ![c] =
               IF added.err # "nil"
               THEN Handler("done", h.fqn, h.tagSeq, h.content, h.versionHash,
                            wrapServiceError(added.err))
               ELSE Handler("tags", h.fqn, Tail(h.tagSeq), h.content,
                            h.versionHash, "")]
        /\ UNCHANGED <<artifacts, blobs, last>>

\* the read of the stored row and the response
UpRespond(c) ==
    LET h == clients[c]
        artifact == GetArtifactMetaByHash(artifacts, tags, h.fqn, h.versionHash)
    IN  /\ h.pc = "tags"
        /\ h.tagSeq = <<>>
        /\ clients' = [clients EXCEPT ![c] =
               Handler("done", h.fqn, h.tagSeq, h.content, h.versionHash,
                       wrapServiceError(artifact.err))]
        /\ UNCHANGED <<artifacts, tags, blobs, last>>

NextConc ==
    \/ \E c \in Clients, fqn \in FQNs, tagSeq \in ConcTagLists,
          content \in Contents : UpStart(c, fqn, tagSeq, content)
    \/ \E c \in Clients : UpStore(c)
    \/ \E c \in Clients : UpMeta(c)
    \/ \E c \in Clients : UpCompensate(c)
    \/ \E c \in Clients : UpTag(c)
    \/ \E c \in Clients : UpRespond(c)

SpecConc == Init /\ [][NextConc]_vars

----------------------------------------------------------------------------
(* Pulls of contents of every length, with Sends that fail *)

PullContents == {Blocks(n) : n \in 0..MaxPullBlocks}

PullIdentifiers == {ByHash(Sha256Hex(c)) : c \in PullContents} \cup
                   {ByTag(t) : t \in Tags}

SendRuns == {[CleanRun EXCEPT !.send = n] : n \in 0..MaxFailAt}

NextPull ==
    \/ \E fqn \in FQNs, tagSeq \in FaultTagLists, content \in PullContents :
           /\ Cardinality(artifacts) < MaxArtifacts
           /\ UploadArtifact(fqn, tagSeq, content, CleanRun)
    \/ \E fqn \in FQNs, id \in PullIdentifiers, run \in SendRuns :
           PullArtifact(fqn, id, run, MaxPullCount)

SpecPull == Init /\ [][NextPull]_vars

----------------------------------------------------------------------------
(* Concurrent Pulls: every handler runs PullArtifact step by step, and
   IncreasePullCount as its two statements, the read and the Save *)

\* a Pull handler: its position, its request, the hash the identifier
\* resolved to, the row IncreasePullCount has read, the status it answers
Puller(pc, fqn, id, versionHash, artifact, status) ==
    [pc |-> pc, fqn |-> fqn, id |-> id, versionHash |-> versionHash,
     artifact |-> artifact, status |-> status]

NoRow == [err |-> "nil", pulls |-> 0]

\* resolveIdentifier and the read of the blob
PlStart(c, fqn, id) ==
    LET artifactMeta == resolveIdentifier(artifacts, tags, fqn, id)
        got == GetArtifact(blobs, fqn, artifactMeta.hash)
    IN  /\ clients[c].pc = "idle"
        /\ TotalPulls(artifacts) < MaxPullCount
        /\ clients' = [clients EXCEPT ![c] =
               IF artifactMeta.err # "nil"
               THEN Puller("done", fqn, id, EmptyHash, NoRow,
                           artifactMeta.status)
               ELSE IF got.err # "nil"
               THEN Puller("done", fqn, id, artifactMeta.hash, NoRow,
                           wrapServiceError(got.err))
               ELSE Puller("send", fqn, id, artifactMeta.hash, NoRow, "")]
        /\ UNCHANGED <<artifacts, tags, blobs, last>>

\* every chunk has been sent
PlSend(c) ==
    LET h == clients[c]
    IN  /\ h.pc = "send"
        /\ clients' = [clients EXCEPT ![c] =
               Puller("read", h.fqn, h.id, h.versionHash, NoRow, "")]
        /\ UNCHANGED <<artifacts, tags, blobs, last>>

\* IncreasePullCount: the read of the row
PlRead(c) ==
    LET h == clients[c]
        artifact == GetArtifactMetaByHash(artifacts, tags, h.fqn,
                                          h.versionHash)
    IN  /\ h.pc = "read"
        /\ clients' = [clients EXCEPT ![c] =
               IF artifact.err # "nil"
               THEN Puller("done", h.fqn, h.id, h.versionHash, NoRow, "OK")
               ELSE Puller("save", h.fqn, h.id, h.versionHash,
                           [err |-> "nil", pulls |-> artifact.pulls], "")]
        /\ UNCHANGED <<artifacts, tags, blobs, last>>

\* IncreasePullCount: PullsCount += 1 on the row read, and its Save
PlSave(c) ==
    LET h == clients[c]
    IN  /\ h.pc = "save"
        /\ artifacts' = (artifacts \ RowsOf(artifacts, h.fqn, h.versionHash))
               \cup {[fqn |-> h.fqn, hash |-> h.versionHash,
                      pulls |-> h.artifact.pulls + 1]}
        /\ clients' = [clients EXCEPT ![c] =
               Puller("done", h.fqn, h.id, h.versionHash, h.artifact, "OK")]
        /\ UNCHANGED <<tags, blobs, last>>

\* the handler returns
PlRespond(c) ==
    /\ clients[c].pc = "done"
    /\ clients' = [clients EXCEPT ![c] = Idle]
    /\ UNCHANGED <<artifacts, tags, blobs, last>>

NextPulls ==
    \/ \E fqn \in FQNs, tagSeq \in FaultTagLists, content \in Contents :
           /\ Cardinality(artifacts) < MaxArtifacts
           /\ UploadArtifact(fqn, tagSeq, content, CleanRun)
    \/ \E c \in Clients, fqn \in FQNs, id \in Identifiers : PlStart(c, fqn, id)
    \/ \E c \in Clients : PlSend(c)
    \/ \E c \in Clients : PlRead(c)
    \/ \E c \in Clients : PlSave(c)
    \/ \E c \in Clients : PlRespond(c)

SpecPulls == Init /\ [][NextPulls]_vars

----------------------------------------------------------------------------
(* Query by partial FQN over artifacts of several FQNs *)

QueryFQNs == { [source |-> "github", author |-> "alice", name |-> "app"],
               [source |-> "github", author |-> "bob", name |-> "app"],
               [source |-> "gitlab", author |-> "alice", name |-> "app"] }

\* an optional string of an ArtifactQuery: a nil pointer, or a value that may
\* be the empty string
Absent == [present |-> FALSE, value |-> ""]
Supplied(v) == [present |-> TRUE, value |-> v]

QueryComponents(values) == {Absent} \cup {Supplied(v) : v \in values \cup {""}}

Queries ==
    [source : QueryComponents({"github", "gitlab"}),
     author : QueryComponents({"alice", "bob"}),
     name : QueryComponents({"app", "tool"})]

\* Where(&Artifact{Source, Author, Name}): a condition for every non-zero
\* field of the struct, none for an empty string
GetArtifactMetasByFQN(A, T, fqn) ==
    {[fqn |-> a.fqn, hash |-> a.hash, pulls |-> a.pulls,
      tags |-> TagNames(TagsOfArtifact(T, a.fqn, a.hash))] :
        a \in {r \in A : /\ fqn.source # "" => r.fqn.source = fqn.source
                         /\ fqn.author # "" => r.fqn.author = fqn.author
                         /\ fqn.name # "" => r.fqn.name = fqn.name}}

\* the FullyQualifiedName QueryArtifacts builds: a component that is nil
\* stays the empty string
QueryFQN(query) ==
    [source |-> IF query.source.present THEN query.source.value ELSE "",
     author |-> IF query.author.present THEN query.author.value ELSE "",
     name |-> IF query.name.present THEN query.name.value ELSE ""]

QueryResult(A, T, query) ==
    [op |-> "Query", query |-> query, status |-> "OK",
     artifacts |-> GetArtifactMetasByFQN(A, T, QueryFQN(query))]

\* QueryArtifacts that queries the store without a look at the registry
QueryArtifacts_NoRegistryCheck(query) ==
    /\ last' = QueryResult(artifacts, tags, query)
    /\ UNCHANGED <<artifacts, tags, blobs, clients>>

QueryArtifacts(query) ==
    /\ last' = IF blobs = NilRegistry
               THEN [op |-> "Query", query |-> query, status |-> "OK",
                     artifacts |-> {}]
               ELSE QueryResult(artifacts, tags, query)
    /\ UNCHANGED <<artifacts, tags, blobs, clients>>

NextQuery ==
    \/ \E fqn \in QueryFQNs, tagSeq \in ConcTagLists :
           UploadArtifact(fqn, tagSeq, Blocks(1), CleanRun)
    \/ \E query \in Queries : QueryArtifacts(query)

SpecQuery == Init /\ [][NextQuery]_vars

----------------------------------------------------------------------------
(* Get, Delete and Pull with identifiers that are empty or missing *)

InvalidIdentifiers == {ByHash(EmptyHash), ByTag(""), NoIdentifier}

NextInvalid ==
    \/ \E fqn \in FQNs, tagSeq \in ConcTagLists, content \in Contents :
           UploadArtifact(fqn, tagSeq, content, CleanRun)
    \/ \E fqn \in FQNs, id \in InvalidIdentifiers \cup Identifiers :
           GetArtifactCall(fqn, id)
    \/ \E fqn \in FQNs, id \in InvalidIdentifiers \cup Identifiers :
           DeleteArtifactCall(fqn, id, CleanRun)
    \/ \E fqn \in FQNs, id \in InvalidIdentifiers :
           PullArtifact(fqn, id, CleanRun, MaxPulls)

SpecInvalid == Init /\ [][NextInvalid]_vars

----------------------------------------------------------------------------
(* A server constructed without a blob backend, over a metadata store that
   may hold rows *)

newRegistryUnavailableError == "Unavailable"

\* a handler that looks at the registry only in the operations that use it
Served_ChecksBackendUsersOnly(op, fqn, id, reqTags, content, handler) ==
    IF blobs = NilRegistry /\ op \in {"Pull", "Upload", "Delete"}
    THEN /\ last' = Failed(op, fqn, id, reqTags, content,
                           newRegistryUnavailableError, {})
         /\ UNCHANGED <<artifacts, tags, blobs, clients>>
    ELSE handler

\* the check `s.registry == nil` that every handler makes after it has
\* validated its request, and the rest of the handler
Served(op, fqn, id, reqTags, content, handler) ==
    IF blobs = NilRegistry
    THEN /\ last' = Failed(op, fqn, id, reqTags, content,
                           newRegistryUnavailableError, {})
         /\ UNCHANGED <<artifacts, tags, blobs, clients>>
    ELSE handler

\* the rows a metadata store may hold when the server starts: artifacts of
\* stored contents, every tag on at most one of them
StoredArtifacts ==
    SUBSET {[fqn |-> fqn, hash |-> h, pulls |-> 0] : fqn \in FQNs, h \in Hashes}

StoredTags(A) ==
    {T \in SUBSET {[fqn |-> a.fqn, hash |-> a.hash, tag |-> t] :
                       a \in A, t \in Tags} :
        \A t1, t2 \in T : (t1.fqn = t2.fqn /\ t1.tag = t2.tag) => t1 = t2}

InitNil ==
    /\ clients = [c \in Clients |-> Idle]
    /\ artifacts \in StoredArtifacts
    /\ tags \in StoredTags(artifacts)
    /\ blobs = NilRegistry
    /\ last = Failed("Init", CHOOSE f \in FQNs : TRUE, NoIdentifier, <<>>, <<>>,
                     "OK", {})

NextNil ==
    \/ \E fqn \in FQNs, tagSeq \in TagLists, content \in Contents :
           Served("Upload", fqn, NoIdentifier, tagSeq, content,
                  UploadArtifact(fqn, tagSeq, content, CleanRun))
    \/ \E fqn \in FQNs, id \in Identifiers :
           Served("Pull", fqn, id, <<>>, <<>>,
                  PullArtifact(fqn, id, CleanRun, MaxPulls))
    \/ \E fqn \in FQNs, id \in Identifiers :
           Served("Delete", fqn, id, <<>>, <<>>,
                  DeleteArtifactCall(fqn, id, CleanRun))
    \/ \E fqn \in FQNs, id \in Identifiers :
           Served("Get", fqn, id, <<>>, <<>>, GetArtifactCall(fqn, id))
    \/ \E fqn \in FQNs, h \in Hashes \cup {NoSuchHash}, tag \in Tags :
           Served("AddTag", fqn, HashAndTag(h, tag), <<>>, <<>>,
                  AddTag(fqn, h, tag))
    \/ \E fqn \in FQNs, h \in Hashes \cup {NoSuchHash}, tag \in Tags :
           Served("RemoveTag", fqn, HashAndTag(h, tag), <<>>, <<>>,
                  RemoveTag(fqn, h, tag))
    \/ \E query \in Queries : QueryArtifacts(query)

SpecNil == InitNil /\ [][NextNil]_vars

----------------------------------------------------------------------------
(* CreateArtifactMeta with tag inserts that fail inside the transaction *)

\* the call together with the number of the tag insert that failed
WithFailAt(call, failAt) ==
    [f \in DOMAIN call \cup {"failAt"} |->
        IF f = "failAt" THEN failAt ELSE call[f]]

CreateArtifactMetaTx(fqn, versionHash, tagSeq, failAt) ==
    LET r == DB_CreateArtifactMetaTx(artifacts, tags, fqn, versionHash, tagSeq,
                                     failAt)
    IN  /\ artifacts' = r.artifacts
        /\ tags' = r.tags
        /\ last' = WithFailAt(StoreCall("CreateArtifactMeta", fqn, versionHash,
                                        "", tagSeq, r.err, {}), failAt)
        /\ UNCHANGED <<blobs, clients>>

NextTx ==
    \E fqn \in FQNs, h \in Hashes, tagSeq \in TagLists :
        \E failAt \in 0..Len(tagSeq) :
            CreateArtifactMetaTx(fqn, h, tagSeq, failAt)

SpecTx == Init /\ [][NextTx]_vars

----------------------------------------------------------------------------
(* Concurrent AddTag calls: every call runs DB.AddTag statement by statement,
   the count, the delete and the insert; no transaction spans them *)

\* an AddTag call: its position, its request and the error it returns
Tagger(pc, fqn, versionHash, tag, err) ==
    [pc |-> pc, fqn |-> fqn, versionHash |-> versionHash, tag |-> tag,
     err |-> err]

\* the count of the artifact rows of (fqn, hash)
AtCount(c, fqn, versionHash, tag) ==
    /\ clients[c].pc = "idle"
    /\ clients' = [clients EXCEPT ![c] =
           IF Cardinality(RowsOf(artifacts, fqn, versionHash)) = 0
           THEN Tagger("done", fqn, versionHash, tag, "NotFound")
           ELSE Tagger("delete", fqn, versionHash, tag, "")]
    /\ UNCHANGED <<artifacts, tags, blobs, last>>

\* addTag: the delete of the rows of (fqn, tag)
AtDelete(c) ==
    LET h == clients[c]
    IN  /\ h.pc = "delete"
        /\ tags' = {t \in tags : ~(t.fqn = h.fqn /\ t.tag = h.tag)}
        /\ clients' = [clients EXCEPT ![c] =
               Tagger("create", h.fqn, h.versionHash, h.tag, "")]
        /\ UNCHANGED <<artifacts, blobs, last>>

\* addTag: the insert of (fqn, hash, tag), whose primary key is all three
AtCreate(c) ==
    LET h == clients[c]
        tagObject == [fqn |-> h.fqn, hash |-> h.versionHash, tag |-> h.tag]
        err == IF RowsOf(artifacts, h.fqn, h.versionHash) = {}
               THEN wrapErrorWithDetails("ErrForeignKeyViolated")
               ELSE IF tagObject \in tags
               THEN wrapErrorWithDetails("ErrDuplicatedKey")
               ELSE "nil"
    IN  /\ h.pc = "create"
        /\ tags' = IF err = "nil" THEN tags \cup {tagObject} ELSE tags
        /\ clients' = [clients EXCEPT ![c] =
               Tagger("done", h.fqn, h.versionHash, h.tag, err)]
        /\ UNCHANGED <<artifacts, blobs, last>>

\* the call returns
AtRespond(c) ==
    /\ clients[c].pc = "done"
    /\ "tag" \in DOMAIN clients[c]
    /\ clients' = [clients EXCEPT ![c] = Idle]
    /\ UNCHANGED <<artifacts, tags, blobs, last>>

NextTags ==
    \/ \E fqn \in FQNs, content \in Contents :
           UploadArtifact(fqn, <<>>, content, CleanRun)
    \/ \E c \in Clients, fqn \in FQNs, h \in Hashes \cup {NoSuchHash},
          tag \in Tags : AtCount(c, fqn, h, tag)
    \/ \E c \in Clients : AtDelete(c)
    \/ \E c \in Clients : AtCreate(c)
    \/ \E c \in Clients : AtRespond(c)

SpecTags == Init /\ [][NextTags]_vars

----------------------------------------------------------------------------
(* The blob backend driven through the Registry interface *)

\* a call of the backend: the request, and the hash, content and error
\* it returned
BlobCall(op, fqn, content, hash, got, err) ==
    [op |-> op, fqn |-> fqn, content |-> content, versionHash |-> hash,
     got |-> got, status |-> err]

BlobStore(fqn, content) ==
    LET r == StoreArtifact(blobs, fqn, content)
    IN  /\ blobs' = r.blobs
        /\ last' = BlobCall("StoreArtifact", fqn, content, r.versionHash, <<>>,
                            r.err)
        /\ UNCHANGED <<artifacts, tags, clients>>

BlobGet(fqn, hash) ==
    LET r == GetArtifact(blobs, fqn, hash)
    IN  /\ last' = BlobCall("GetArtifact", fqn, <<>>, hash, r.content, r.err)
        /\ UNCHANGED <<artifacts, tags, blobs, clients>>

BlobDelete(fqn, hash) ==
    LET r == DeleteArtifact(blobs, fqn, hash)
    IN  /\ blobs' = r.blobs
        /\ last' = BlobCall("DeleteArtifact", fqn, <<>>, hash, <<>>, r.err)
        /\ UNCHANGED <<artifacts, tags, clients>>

NextBlobs ==
    \/ \E fqn \in StoreFQNs, content \in Contents : BlobStore(fqn, content)
    \/ \E fqn \in StoreFQNs, h \in Hashes \cup {NoSuchHash} : BlobGet(fqn, h)
    \/ \E fqn \in StoreFQNs, h \in Hashes \cup {NoSuchHash} : BlobDelete(fqn, h)

SpecBlobs == Init /\ [][NextBlobs]_vars

----------------------------------------------------------------------------
(* The filesystem backend: StoreArtifact step by step. blobs is the file
   system, final paths and the temp files of the uploads directory *)

\* names uuid.NewUUID can give to temp files
TempNames == {"tmp1", "tmp2"}

TempPath(name) == <<"uploads", name>>

\* the step of StoreArtifact at which the file system or the reader fails
StoreFaults == {"nil", "create", "copy", "mkdir", "rename", "close"}

\* a StoreArtifact call: its position, its arguments, its temp file, the
\* step that will fail, the variable err of the function body that the
\* deferred function reads, and the error of the return statement
Storer(pc, fqn, content, temp, fault, err, returned) ==
    [pc |-> pc, fqn |-> fqn, content |-> content, temp |-> temp,
     fault |-> fault, err |-> err, returned |-> returned]

WriteFile(B, path, content) ==
    [k \in DOMAIN B \cup {path} |-> IF k = path THEN content ELSE B[k]]

RemoveFile(B, path) == [k \in DOMAIN B \ {path} |-> B[k]]

\* file, err := os.Create(temp)
FsCreate(c, fqn, content, name, fault) ==
    /\ clients[c].pc = "idle"
    /\ TempPath(name) \notin DOMAIN blobs
    /\ \A d \in Clients :
           "temp" \in DOMAIN clients[d] => clients[d].temp # TempPath(name)
    /\ IF fault = "create"
       THEN /\ clients' = [clients EXCEPT ![c] =
                   Storer("done", fqn, content, TempPath(name), fault,
                          "IOError", "IOError")]
            /\ UNCHANGED blobs
       ELSE /\ blobs' = WriteFile(blobs, TempPath(name), <<>>)
            /\ clients' = [clients EXCEPT ![c] =
                   Storer("copy", fqn, content, TempPath(name), fault,
                          "nil", "nil")]
    /\ UNCHANGED <<artifacts, tags, last>>

\* if _, err := io.Copy(multiWriter, reader); err != nil { return }: the
\* err of the if statement is a new variable, the body's err stays nil
FsCopy(c, written) ==
    LET h == clients[c]
    IN  /\ h.pc = "copy"
        /\ IF h.fault = "copy"
           THEN /\ written < Len(h.content)
                /\ blobs' = WriteFile(blobs, h.temp,
                                      SubSeq(h.content, 1, written))
                /\ clients' = [clients EXCEPT ![c] =
                       Storer("close", h.fqn, h.content, h.temp, h.fault,
                              h.err, "IOError")]
           ELSE /\ written = Len(h.content)
                /\ blobs' = WriteFile(blobs, h.temp, h.content)
                /\ clients' = [clients EXCEPT ![c] =
                       Storer("mkdir", h.fqn, h.content, h.temp, h.fault,
                              h.err, "nil")]
        /\ UNCHANGED <<artifacts, tags, last>>

\* if err := os.MkdirAll(finalDir); err != nil { return }
FsMkdir(c) ==
    LET h == clients[c]
    IN  /\ h.pc = "mkdir"
        /\ clients' = [clients EXCEPT ![c] =
               IF h.fault = "mkdir"
               THEN Storer("close", h.fqn, h.content, h.temp, h.fault, h.err,
                           "IOError")
               ELSE Storer("rename", h.fqn, h.content, h.temp, h.fault, h.err,
                           "nil")]
        /\ UNCHANGED <<artifacts, tags, blobs, last>>

\* a rename that has moved the file when it reports its error
FsRename_FailsAfterMove(c) ==
    LET h == clients[c]
        finalPath == getArtifactKey(h.fqn, Sha256Hex(blobs[h.temp]))
    IN  /\ h.pc = "rename"
        /\ blobs' = RemoveFile(WriteFile(blobs, finalPath, blobs[h.temp]),
                               h.temp)
        /\ clients' = [clients EXCEPT ![c] =
               Storer("close", h.fqn, h.content, h.temp, h.fault, h.err,
                      IF h.fault = "rename" THEN "IOError" ELSE "nil")]
        /\ UNCHANGED <<artifacts, tags, last>>

\* if err := os.Rename(temp, finalPath); err != nil { return }; the hash is
\* the hash of the bytes written
FsRename(c) ==
    LET h == clients[c]
        finalPath == getArtifactKey(h.fqn, Sha256Hex(blobs[h.temp]))
    IN  /\ h.pc = "rename"
        /\ IF h.fault = "rename"
           THEN /\ UNCHANGED blobs
                /\ clients' = [clients EXCEPT ![c] =
                       Storer("close", h.fqn, h.content, h.temp, h.fault,
                              h.err, "IOError")]
           ELSE /\ blobs' = RemoveFile(WriteFile(blobs, finalPath,
                                                 blobs[h.temp]), h.temp)
                /\ clients' = [clients EXCEPT ![c] =
                       Storer("close", h.fqn, h.content, h.temp, h.fault,
                              h.err, "nil")]
        /\ UNCHANGED <<artifacts, tags, last>>

\* the deferred function: Close, whose error is kept in the body's err when
\* that is nil, and the removal of the temp file when the body's err is set.
\* The results are unnamed: what is returned is the return statement's error
FsClose(c) ==
    LET h == clients[c]
        cerr == IF h.fault = "close" THEN "IOError" ELSE "nil"
        err == IF cerr # "nil" /\ h.err = "nil" THEN cerr ELSE h.err
    IN  /\ h.pc = "close"
        /\ blobs' = IF err # "nil" THEN RemoveFile(blobs, h.temp) ELSE blobs
        /\ clients' = [clients EXCEPT ![c] =
               Storer("done", h.fqn, h.content, h.temp, h.fault, err,
                      h.returned)]
        /\ UNCHANGED <<artifacts, tags, last>>

\* StoreArtifact has returned to its caller
FsReturn(c) ==
    /\ clients[c].pc = "done"
    /\ "returned" \in DOMAIN clients[c]
    /\ clients' = [clients EXCEPT ![c] = Idle]
    /\ UNCHANGED <<artifacts, tags, blobs, last>>

NextFs ==
    \/ \E c \in Clients, fqn \in FQNs, content \in Contents,
          name \in TempNames, fault \in StoreFaults :
           FsCreate(c, fqn, content, name, fault)
    \/ \E c \in Clients, written \in 0..MaxBlocks : FsCopy(c, written)
    \/ \E c \in Clients : FsMkdir(c)
    \/ \E c \in Clients : FsRename(c)
    \/ \E c \in Clients : FsClose(c)
    \/ \E c \in Clients : FsReturn(c)

SpecFs == Init /\ [][NextFs]_vars

----------------------------------------------------------------------------
(* UploadArtifact step by step: the receive loop, the pipe, the producer
   goroutine that runs StoreArtifact, and the result channel *)

\* the stream under study
Uploader == "c1"

\* what ends the request stream after its chunks: the client's EOF, a
\* receive error, or a message that carries no content chunk
StreamEnds == {"EOF", "RecvError", "NoChunk"}

\* where StoreArtifact fails: nowhere, before it reads, or while it copies
PipeFaults == {"nil", "early", "mid"}

NoResult == [versionHash |-> EmptyHash, err |-> ""]

\* one UploadArtifact call: pc is the handler's position and ppc the
\* producer's; msgs are the chunks the stream has yet to deliver, ending
\* with end; delivered are the chunks Recv has returned; pipe is the chunk
\* of a blocked pw.Write; pw is the writer's state and pr says whether the
\* reader is closed; read are the bytes StoreArtifact has read; chan is the
\* buffer of resultChan
Upload(fqn, tagSeq, content, msgs, end, fault) ==
    [pc |-> "recv", ppc |-> "store", fqn |-> fqn, tagSeq |-> tagSeq,
     content |-> content, msgs |-> msgs, end |-> end, fault |-> fault,
     delivered |-> <<>>, pipe |-> <<>>, pw |-> "open", pr |-> FALSE,
     read |-> <<>>, stored |-> NoResult, chan |-> <<>>, closed |-> FALSE,
     cancelled |-> FALSE, result |-> NoResult, status |-> ""]

\* a close that leaves the writer open
CloseWithError_LeavesOpen(pw, err) == pw

\* pw.CloseWithError and pw.Close keep the first error
CloseWithError(pw, err) == IF pw = "open" THEN err ELSE pw

\* lines 245-266: the pipe, the channel and the producer are created
PipeStart(c, fqn, tagSeq, content, end, fault) ==
    /\ clients[c].pc = "idle"
    /\ clients' = [clients EXCEPT ![c] =
           Upload(fqn, tagSeq, content, Chunks(content, 0), end, fault)]
    /\ UNCHANGED <<artifacts, tags, blobs, last>>

\* a pw.Write that hands its chunk over without waiting for the reader
PipeRecv_WriteDoesNotBlock(c) ==
    LET u == clients[c]
    IN  /\ u.pc = "recv"
        /\ clients' = [clients EXCEPT ![c] =
             IF u.cancelled
             THEN [u EXCEPT !.pw = CloseWithError(u.pw, "Canceled"),
                            !.status = wrapServiceError("Canceled"),
                            !.pc = "defer"]
             ELSE IF u.msgs # <<>>
             THEN IF u.pr \/ u.pw # "open"
                  THEN [u EXCEPT !.msgs = Tail(u.msgs),
                                 !.delivered = Append(u.delivered, Head(u.msgs)),
                                 !.pw = CloseWithError(u.pw, "ErrClosedPipe")]
                  ELSE [u EXCEPT !.msgs = Tail(u.msgs),
                                 !.delivered = Append(u.delivered, Head(u.msgs)),
                                 !.pipe = <<Head(u.msgs)>>]
             ELSE IF u.end = "EOF" THEN [u EXCEPT !.pc = "close"]
             ELSE IF u.end = "NoChunk"
             THEN [u EXCEPT !.pw = CloseWithError(u.pw, "missing content chunk"),
                            !.status = "InvalidArgument", !.pc = "defer"]
             ELSE [u EXCEPT !.pw = CloseWithError(u.pw, u.end),
                            !.status = wrapServiceError(u.end),
                            !.pc = "defer"]]
        /\ UNCHANGED <<artifacts, tags, blobs, last>>

\* lines 268-298, one turn of the receive loop: stream.Recv, then break at
\* EOF, return at an error or at a message without chunk (closing the pipe
\* with the error), or pw.Write of the chunk, whose error closes the pipe
\* and does not leave the loop
PipeRecv(c) ==
    LET u == clients[c]
    IN  /\ u.pc = "recv"
        /\ clients' = [clients EXCEPT ![c] =
             IF u.cancelled
             THEN [u EXCEPT !.pw = CloseWithError(u.pw, "Canceled"),
                            !.status = wrapServiceError("Canceled"),
                            !.pc = "defer"]
             ELSE IF u.msgs # <<>>
             THEN IF u.pr \/ u.pw # "open"
                  THEN [u EXCEPT !.msgs = Tail(u.msgs),
                                 !.delivered = Append(u.delivered, Head(u.msgs)),
                                 !.pw = CloseWithError(u.pw, "ErrClosedPipe")]
                  ELSE [u EXCEPT !.msgs = Tail(u.msgs),
                                 !.delivered = Append(u.delivered, Head(u.msgs)),
                                 !.pipe = <<Head(u.msgs)>>, !.pc = "write"]
             ELSE IF u.end = "EOF" THEN [u EXCEPT !.pc = "close"]
             ELSE IF u.end = "NoChunk"
             THEN [u EXCEPT !.pw = CloseWithError(u.pw, "missing content chunk"),
                            !.status = "InvalidArgument", !.pc = "defer"]
             ELSE [u EXCEPT !.pw = CloseWithError(u.pw, u.end),
                            !.status = wrapServiceError(u.end),
                            !.pc = "defer"]]
        /\ UNCHANGED <<artifacts, tags, blobs, last>>

\* lines 293-297: the blocked pw.Write returns nil when the reader has taken
\* the chunk and ErrClosedPipe when the reader was closed
PipeWritten(c) ==
    LET u == clients[c]
    IN  /\ u.pc = "write"
        /\ u.pipe = <<>> \/ u.pr
        /\ clients' = [clients EXCEPT ![c] =
             IF u.pipe = <<>> THEN [u EXCEPT !.pc = "recv"]
             ELSE [u EXCEPT !.pipe = <<>>,
                            !.pw = CloseWithError(u.pw, "ErrClosedPipe"),
                            !.pc = "recv"]]
        /\ UNCHANGED <<artifacts, tags, blobs, last>>

\* lines 300-306: pw.Close after the loop
PipeClose(c) ==
    LET u == clients[c]
    IN  /\ u.pc = "close"
        /\ clients' = [clients EXCEPT ![c] =
               [u EXCEPT !.pw = CloseWithError(u.pw, "EOF"), !.pc = "result"]]
        /\ UNCHANGED <<artifacts, tags, blobs, last>>

\* lines 308-321: the receive from resultChan; a closed channel without a
\* value is a cancelled upload, a result with an error ends the call
PipeResult(c) ==
    LET u == clients[c]
    IN  /\ u.pc = "result"
        /\ u.chan # <<>> \/ u.closed
        /\ clients' = [clients EXCEPT ![c] =
             IF u.chan = <<>>
             THEN [u EXCEPT !.status = wrapServiceError("Canceled"),
                            !.pc = "defer"]
             ELSE IF Head(u.chan).err # "nil"
             THEN [u EXCEPT !.chan = <<>>, !.result = Head(u.chan),
                            !.status = wrapServiceError(Head(u.chan).err),
                            !.pc = "defer"]
             ELSE [u EXCEPT !.chan = <<>>, !.result = Head(u.chan),
                            !.pc = "commit"]]
        /\ UNCHANGED <<artifacts, tags, blobs, last>>

\* lines 323-378: the metadata insert, the tags and the response
PipeCommit(c) ==
    LET u == clients[c]
        result == [err |-> "nil", versionHash |-> u.result.versionHash,
                   blobs |-> blobs]
        commit == UploadCommit(artifacts, tags, u.fqn, result, CleanRun)
        tagged == UploadTags(commit.artifacts, commit.tags, u.fqn,
                             u.result.versionHash, u.tagSeq)
        err == IF commit.err # "nil" THEN commit.err ELSE tagged.err
    IN  /\ u.pc = "commit"
        /\ artifacts' = commit.artifacts
        /\ tags' = IF commit.err # "nil" THEN commit.tags ELSE tagged.tags
        /\ blobs' = commit.blobs
        /\ clients' = [clients EXCEPT ![c] =
               [u EXCEPT !.status = wrapServiceError(err), !.pc = "defer"]]
        /\ UNCHANGED last

\* line 266 and line 253, the deferred functions of the handler: the receive
\* from resultChan, which waits for the producer's value or for the close
\* of the channel, then cancel
PipeDefer(c) ==
    LET u == clients[c]
    IN  /\ u.pc = "defer"
        /\ u.chan # <<>> \/ u.closed
        /\ clients' = [clients EXCEPT ![c] =
               [u EXCEPT !.chan = <<>>, !.cancelled = TRUE, !.pc = "done"]]
        /\ last' = Call("Upload", u.fqn, NoIdentifier, u.tagSeq, u.content,
                        u.status, u.result.versionHash, Range(u.tagSeq), 0,
                        <<>>, {})
        /\ UNCHANGED <<artifacts, tags, blobs>>

\* the client cancels the stream while the handler runs
PipeCancel(c) ==
    LET u == clients[c]
    IN  /\ u.pc \in {"recv", "write", "close", "result"}
        /\ ~u.cancelled
        /\ clients' = [clients EXCEPT ![c] = [u EXCEPT !.cancelled = TRUE]]
        /\ UNCHANGED <<artifacts, tags, blobs, last>>

\* line 257, StoreArtifact reading pr: it takes the chunk of a blocked
\* Write, or returns at the writer's close: with the hash of what it read
\* at EOF, with the writer's error otherwise
StoreRead(c) ==
    LET u == clients[c]
        store == StoreArtifact(blobs, u.fqn, u.read)
    IN  /\ "ppc" \in DOMAIN u
        /\ u.ppc = "store"
        /\ u.fault # "early"
        /\ u.pipe # <<>> \/ u.pw # "open"
        /\ IF u.pipe # <<>>
           THEN /\ clients' = [clients EXCEPT ![c] =
                      IF u.fault = "mid"
                      THEN [u EXCEPT !.pipe = <<>>,
                                     !.stored = [versionHash |-> EmptyHash,
                                                 err |-> "IOError"],
                                     !.ppc = "send"]
                      ELSE [u EXCEPT !.pipe = <<>>,
                                     !.read = u.read \o Head(u.pipe)]]
                /\ UNCHANGED blobs
           ELSE IF u.pw = "EOF"
           THEN /\ blobs' = store.blobs
                /\ clients' = [clients EXCEPT ![c] =
                      [u EXCEPT !.stored = [versionHash |-> store.versionHash,
                                            err |-> "nil"],
                                !.ppc = "send"]]
           ELSE /\ clients' = [clients EXCEPT ![c] =
                      [u EXCEPT !.stored = [versionHash |-> EmptyHash,
                                            err |-> u.pw],
                                !.ppc = "send"]]
                /\ UNCHANGED blobs
        /\ UNCHANGED <<artifacts, tags, last>>

\* StoreArtifact returns an error before it reads the pipe
StoreFailsEarly(c) ==
    LET u == clients[c]
    IN  /\ "ppc" \in DOMAIN u
        /\ u.ppc = "store"
        /\ u.fault = "early"
        /\ clients' = [clients EXCEPT ![c] =
               [u EXCEPT !.stored = [versionHash |-> EmptyHash,
                                     err |-> "IOError"],
                         !.ppc = "send"]]
        /\ UNCHANGED <<artifacts, tags, blobs, last>>

\* lines 258-264, the select: the send into the buffer of capacity one, or,
\* when the context is done, possibly nothing
StoreSend(c, sends) ==
    LET u == clients[c]
    IN  /\ "ppc" \in DOMAIN u
        /\ u.ppc = "send"
        /\ sends \/ u.cancelled
        /\ clients' = [clients EXCEPT ![c] =
               [u EXCEPT !.chan = IF sends THEN <<u.stored>> ELSE <<>>,
                         !.ppc = "closechan"]]
        /\ UNCHANGED <<artifacts, tags, blobs, last>>

\* line 265: close(resultChan)
StoreCloseChan(c) ==
    LET u == clients[c]
    IN  /\ "ppc" \in DOMAIN u
        /\ u.ppc = "closechan"
        /\ clients' = [clients EXCEPT ![c] =
               [u EXCEPT !.closed = TRUE, !.ppc = "prclose"]]
        /\ UNCHANGED <<artifacts, tags, blobs, last>>

\* a producer that returns without closing the reader
StorePrClose_LeavesReaderOpen(c) ==
    LET u == clients[c]
    IN  /\ "ppc" \in DOMAIN u
        /\ u.ppc = "prclose"
        /\ clients' = [clients EXCEPT ![c] = [u EXCEPT !.ppc = "done"]]
        /\ UNCHANGED <<artifacts, tags, blobs, last>>

\* line 256: the deferred pr.Close() of the producer
StorePrClose(c) ==
    LET u == clients[c]
    IN  /\ "ppc" \in DOMAIN u
        /\ u.ppc = "prclose"
        /\ clients' = [clients EXCEPT ![c] =
               [u EXCEPT !.pr = TRUE, !.ppc = "done"]]
        /\ UNCHANGED <<artifacts, tags, blobs, last>>

\* the handler has returned and the producer has ended
PipeReturn(c) ==
    /\ clients[c].pc = "done"
    /\ "ppc" \in DOMAIN clients[c]
    /\ clients[c].ppc = "done"
    /\ clients' = [clients EXCEPT ![c] = Idle]
    /\ UNCHANGED <<artifacts, tags, blobs, last>>

\* the steps of the handler's goroutine
HandlerSteps(c) ==
    \/ PipeRecv(c)
    \/ PipeWritten(c)
    \/ PipeClose(c)
    \/ PipeResult(c)
    \/ PipeCommit(c)
    \/ PipeDefer(c)

\* the steps of the producer goroutine
ProducerSteps(c) ==
    \/ StoreRead(c)
    \/ StoreFailsEarly(c)
    \/ \E sends \in BOOLEAN : StoreSend(c, sends)
    \/ StoreCloseChan(c)
    \/ StorePrClose(c)

NextPipe ==
    \/ \E fqn \in FQNs, tagSeq \in FaultTagLists, content \in Contents,
          end \in StreamEnds, fault \in PipeFaults :
           PipeStart(Uploader, fqn, tagSeq, content, end, fault)
    \/ HandlerSteps(Uploader)
    \/ ProducerSteps(Uploader)
    \/ PipeCancel(Uploader)
    \/ PipeReturn(Uploader)

SpecPipe == Init /\ [][NextPipe]_vars

\* the scheduler runs each goroutine that can take a step, and the client
\* keeps sending until it ends the stream
SpecPipeFair ==
    /\ SpecPipe
    /\ WF_vars(HandlerSteps(Uploader))
    /\ WF_vars(ProducerSteps(Uploader))

----------------------------------------------------------------------------
(* The operations that are not uploads, with Query, after uploads *)

NextFrame ==
    \/ \E fqn \in FQNs, tagSeq \in FaultTagLists, content \in Contents :
           UploadArtifact(fqn, tagSeq, content, CleanRun)
    \/ \E fqn \in FQNs, id \in Identifiers :
           PullArtifact(fqn, id, CleanRun, MaxPullCount)
    \/ \E fqn \in FQNs, id \in Identifiers : GetArtifactCall(fqn, id)
    \/ \E query \in Queries : QueryArtifacts(query)
    \/ \E fqn \in FQNs, h \in Hashes \cup {NoSuchHash}, tag \in Tags :
           AddTag(fqn, h, tag)
    \/ \E fqn \in FQNs, h \in Hashes \cup {NoSuchHash}, tag \in Tags :
           RemoveTag(fqn, h, tag)

SpecFrame == Init /\ [][NextFrame]_vars

----------------------------------------------------------------------------
(* Pulls step by step beside Delete *)

NextPullDelete ==
    \/ \E fqn \in FQNs, tagSeq \in FaultTagLists, content \in Contents :
           /\ Cardinality(artifacts) < MaxArtifacts
           /\ UploadArtifact(fqn, tagSeq, content, CleanRun)
    \/ \E fqn \in FQNs, id \in Identifiers :
           DeleteArtifactCall(fqn, id, CleanRun)
    \/ \E c \in Clients, fqn \in FQNs, id \in Identifiers : PlStart(c, fqn, id)
    \/ \E c \in Clients : PlSend(c)
    \/ \E c \in Clients : PlRead(c)
    \/ \E c \in Clients : PlSave(c)
    \/ \E c \in Clients : PlRespond(c)

SpecPullDelete == Init /\ [][NextPullDelete]_vars

----------------------------------------------------------------------------
(* PullArtifact by tag, chunk by chunk, beside uploads and AddTag calls
   that move the tag *)

\* a PullArtifact call by tag: its position, its request, artifactMeta.Hash,
\* the content GetArtifact returned, the chunks sent, the status, and the
\* hashes the tag pointed to when the call began
TagPull(pc, fqn, tag, versionHash, content, sent, status, prior) ==
    [pc |-> pc, fqn |-> fqn, tag |-> tag, versionHash |-> versionHash,
     content |-> content, sent |-> sent, status |-> status, prior |-> prior]

\* lines 130-158: GetArtifactMetaByTag, then the read of the blob
PtStart(c, fqn, tag) ==
    LET artifactMeta == resolveIdentifier(artifacts, tags, fqn, ByTag(tag))
        got == GetArtifact(blobs, fqn, artifactMeta.hash)
        prior == PriorHashes(tags, fqn, tag)
    IN  /\ clients[c].pc = "idle"
        /\ TotalPulls(artifacts) < MaxPullCount
        /\ clients' = [clients EXCEPT ![c] =
               IF artifactMeta.err # "nil"
               THEN TagPull("done", fqn, tag, EmptyHash, <<>>, <<>>,
                            artifactMeta.status, prior)
               ELSE IF got.err # "nil"
               THEN TagPull("done", fqn, tag, artifactMeta.hash, <<>>, <<>>,
                            wrapServiceError(got.err), prior)
               ELSE TagPull("send", fqn, tag, artifactMeta.hash, got.content,
                            <<>>, "", prior)]
        /\ UNCHANGED <<artifacts, tags, blobs, last>>

\* lines 168-188: one Send of the loop
PtSend(c) ==
    LET h == clients[c]
        chunks == Chunks(h.content, 0)
    IN  /\ h.pc = "send"
        /\ "sent" \in DOMAIN h
        /\ Len(h.sent) < Len(chunks)
        /\ clients' = [clients EXCEPT ![c] =
               [h EXCEPT !.sent = Append(h.sent, chunks[Len(h.sent) + 1])]]
        /\ UNCHANGED <<artifacts, tags, blobs, last>>

\* a pull count given to the artifact the tag points to at the end
PtCount_ResolvesAgain(c) ==
    LET h == clients[c]
        artifactMeta == resolveIdentifier(artifacts, tags, h.fqn, ByTag(h.tag))
        counted == DB_IncreasePullCount(artifacts, tags, h.fqn,
                                        artifactMeta.hash)
    IN  /\ h.pc = "send"
        /\ "sent" \in DOMAIN h
        /\ Len(h.sent) = Len(Chunks(h.content, 0))
        /\ artifacts' = counted.artifacts
        /\ clients' = [clients EXCEPT ![c] =
               [h EXCEPT !.pc = "done", !.status = "OK"]]
        /\ UNCHANGED <<tags, blobs, last>>

\* lines 194-205: after the last Send, IncreasePullCount(req.Fqn,
\* versionHash), whose error is logged, and return nil
PtCount(c) ==
    LET h == clients[c]
        counted == DB_IncreasePullCount(artifacts, tags, h.fqn, h.versionHash)
    IN  /\ h.pc = "send"
        /\ "sent" \in DOMAIN h
        /\ Len(h.sent) = Len(Chunks(h.content, 0))
        /\ artifacts' = counted.artifacts
        /\ clients' = [clients EXCEPT ![c] =
               [h EXCEPT !.pc = "done", !.status = "OK"]]
        /\ UNCHANGED <<tags, blobs, last>>

\* the handler has returned
PtRespond(c) ==
    LET h == clients[c]
    IN  /\ h.pc = "done"
        /\ "sent" \in DOMAIN h
        /\ last' = Call("Pull", h.fqn, ByTag(h.tag), <<>>, <<>>, h.status,
                        h.versionHash, {}, 0, h.sent, h.prior)
        /\ clients' = [clients EXCEPT ![c] = Idle]
        /\ UNCHANGED <<artifacts, tags, blobs>>

\* the handlers that pull; the tag is moved by calls of other clients
TagPullers == {"c1"}

NextPullTag ==
    \/ \E fqn \in FQNs, tagSeq \in FaultTagLists, content \in Contents :
           UploadArtifact(fqn, tagSeq, content, CleanRun)
    \/ \E fqn \in FQNs, h \in Hashes, tag \in Tags : AddTag(fqn, h, tag)
    \/ \E c \in TagPullers, fqn \in FQNs, tag \in Tags : PtStart(c, fqn, tag)
    \/ \E c \in TagPullers : PtSend(c)
    \/ \E c \in TagPullers : PtCount(c)
    \/ \E c \in TagPullers : PtRespond(c)

SpecPullTag == Init /\ [][NextPullTag]_vars

----------------------------------------------------------------------------
(* Properties *)

RECURSIVE Concat(_)
Concat(chunks) ==
    IF chunks = <<>> THEN <<>> ELSE Head(chunks) \o Concat(Tail(chunks))

TagRows(T, fqn, tag) == {t \in T : t.fqn = fqn /\ t.tag = tag}

\* C1: after every completed facade operation an Artifact row (FQN, hash)
\* exists if and only if a blob exists at key (FQN, hash)
C1_RowIffBlob ==
    \A fqn \in FQNs, h \in Hashes :
        (RowsOf(artifacts, fqn, h) # {}) <=>
            (getArtifactKey(fqn, h) \in DOMAIN blobs)

\* C2: in every state reached by Upload, AddTag, RemoveTag and Delete there
\* is at most one Tag row for each (FQN, tag_name)
C2_OneTagRowPerName ==
    \A t1 \in tags, t2 \in tags :
        (t1.fqn = t2.fqn /\ t1.tag = t2.tag) => t1 = t2

\* a tag has just been moved from one hash to another by AddTag
C2_TagMoved ==
    /\ last.op = "AddTag"
    /\ last.status = "OK"
    /\ last.prior # {}
    /\ last.versionHash \notin last.prior
    /\ Cardinality(TagRows(tags, last.fqn, last.id.tag)) = 1

\* C3: every Tag row points to an existing Artifact row with the same FQN
\* and hash; no Tag row survives the deletion of its artifact row
C3_TagsPointToArtifacts ==
    \A t \in tags : \E a \in artifacts : a.fqn = t.fqn /\ a.hash = t.hash

\* an artifact row that carried tags has just been deleted, while the other
\* FQN still holds a tagged artifact
C3_TaggedArtifactDeleted ==
    /\ last.op = "DeleteArtifactMeta"
    /\ last.status = "nil"
    /\ last.prior # {}
    /\ RowsOf(artifacts, last.fqn, last.versionHash) = {}
    /\ \E t \in tags : t.fqn # last.fqn

\* C4: after a successful Delete of artifact a, Get by a's hash fails, Get
\* by every tag that pointed to a fails, Pull of a fails, Query no longer
\* lists a and no Tag row references a
C4_DeletedIsGone ==
    (last.op = "Delete" /\ last.status = "OK") =>
        /\ GetResult(artifacts, tags, "Get", last.fqn,
                     ByHash(last.versionHash), ByHash(last.versionHash),
                     {}).status # "OK"
        /\ \A t \in last.respTags :
               GetResult(artifacts, tags, "Get", last.fqn, ByTag(t), ByTag(t),
                         {}).status # "OK"
        /\ PullResult(artifacts, tags, blobs, last.fqn,
                      ByHash(last.versionHash), CleanRun).call.status # "OK"
        /\ RowsOf(artifacts, last.fqn, last.versionHash) = {}
        /\ TagsOfArtifact(tags, last.fqn, last.versionHash) = {}

\* C5: an Upload of bytes already uploaded under the same FQN succeeds,
\* returns the same version_hash and leaves exactly one Artifact row
C5_RepeatUploadSucceeds ==
    [][(/\ last'.op = "Upload"
        /\ RowsOf(artifacts, last'.fqn, Sha256Hex(last'.content)) # {})
       => (/\ last'.status = "OK"
           /\ last'.versionHash = Sha256Hex(last'.content)
           /\ Cardinality(RowsOf(artifacts', last'.fqn,
                                 Sha256Hex(last'.content))) = 1)]_vars

\* C6: when the concurrent Uploads all carry the same bytes under the same
\* FQN and all have returned, every one has returned success and exactly
\* one Artifact row and one blob exist for (FQN, hash)
C6_ConcurrentSameUploads ==
    (/\ \A c \in Clients : clients[c].pc = "done"
     /\ \A c1 \in Clients, c2 \in Clients :
            /\ clients[c1].fqn = clients[c2].fqn
            /\ clients[c1].content = clients[c2].content)
    => \A c \in Clients :
          /\ clients[c].status = "OK"
          /\ Cardinality(RowsOf(artifacts, clients[c].fqn,
                                Sha256Hex(clients[c].content))) = 1
          /\ getArtifactKey(clients[c].fqn, Sha256Hex(clients[c].content))
                 \in DOMAIN blobs

\* C7: a Pull by the returned hash, or by any tag of the uploaded tag list,
\* right after a successful Upload streams chunks whose concatenation is
\* the uploaded content
C7_UploadThenPull ==
    [][(/\ last.op = "Upload"
        /\ last.status = "OK"
        /\ last'.op = "Pull"
        /\ last'.fqn = last.fqn
        /\ \/ last'.id = ByHash(last.versionHash)
           \/ last'.id.kind = "tag" /\ last'.id.tag \in Range(last.reqTags))
       => (/\ last'.status = "OK"
           /\ Concat(last'.chunks) = last.content)]_vars

\* a Pull by tag has streamed a content of more than one chunk
C7_PulledByTagInChunks ==
    /\ last.op = "Pull"
    /\ last.status = "OK"
    /\ last.id.kind = "tag"
    /\ Len(last.chunks) >= 2

\* C8: for every Artifact row (FQN, h), h is the hash of the bytes stored
\* at blob key (FQN, h)
C8_HashOfStoredBytes ==
    \A a \in artifacts :
        /\ getArtifactKey(a.fqn, a.hash) \in DOMAIN blobs
        /\ Sha256Hex(blobs[getArtifactKey(a.fqn, a.hash)]) = a.hash

\* C9: AddTag(FQN, h, t) on an existing artifact succeeds; afterwards
\* (FQN, t) resolves to h, the only Tag row of (FQN, t) is the one on h,
\* no other tag has changed, and the artifact returned carries its
\* previous tags plus t
C9_AddTagMovesTag ==
    [][(/\ last'.op = "AddTag"
        /\ RowsOf(artifacts, last'.fqn, last'.id.hash) # {})
       => (/\ last'.status = "OK"
           /\ GetArtifactMetaByTag(artifacts', tags', last'.fqn,
                                   last'.id.tag).hash = last'.id.hash
           /\ TagRows(tags', last'.fqn, last'.id.tag) =
                  {[fqn |-> last'.fqn, hash |-> last'.id.hash,
                    tag |-> last'.id.tag]}
           /\ {t \in tags' : t.tag # last'.id.tag} =
                  {t \in tags : t.tag # last'.id.tag}
           /\ last'.versionHash = last'.id.hash
           /\ last'.respTags =
                  TagNames(TagsOfArtifact(tags, last'.fqn, last'.id.hash))
                      \cup {last'.id.tag})]_vars

\* AddTag has moved a tag from another hash onto an artifact that already
\* carried a tag
C9_MovedOntoTaggedArtifact ==
    /\ last.op = "AddTag"
    /\ last.status = "OK"
    /\ last.prior # {}
    /\ last.versionHash \notin last.prior
    /\ Cardinality(last.respTags) = 2

\* C10: AddTag(FQN, h, t) when no Artifact row (FQN, h) exists fails with
\* NotFound and leaves every Tag row unchanged
C10_AddTagNotFound ==
    [][(/\ last'.op = "AddTag"
        /\ RowsOf(artifacts, last'.fqn, last'.id.hash) = {})
       => (/\ last'.status = "NotFound"
           /\ tags' = tags)]_vars

\* AddTag has failed on a missing artifact while the tag points to another
\* hash of the FQN
C10_NotFoundTagKept ==
    /\ last.op = "AddTag"
    /\ last.status = "NotFound"
    /\ last.prior # {}
    /\ TagRows(tags, last.fqn, last.id.tag) # {}

\* C11: RemoveTag for a (FQN, tag) that has a Tag row deletes exactly that
\* row and returns the artifact without that tag, its other tags kept;
\* RemoveTag for a (FQN, tag) that has no Tag row fails with NotFound
C11_RemoveTag ==
    [][(last'.op = "RemoveTag")
       => IF TagRows(tags, last'.fqn, last'.id.tag) # {}
          THEN /\ tags' = tags \ TagRows(tags, last'.fqn, last'.id.tag)
               /\ last'.id.hash \in last'.prior
                   => /\ last'.status = "OK"
                      /\ last'.respTags =
                            TagNames(TagsOfArtifact(tags, last'.fqn,
                                                    last'.id.hash))
                                \ {last'.id.tag}
          ELSE /\ last'.status = "NotFound"
               /\ tags' = tags]_vars

ValidUpload(call) ==
    /\ call.op = "Upload"
    /\ call.run.first = "metadata"
    /\ call.fqn \notin InvalidFQNs

\* C13: if the backend's Store fails during an Upload, the Upload returns an
\* error and no Artifact row and no Tag row is created
C13_StoreFailsNoMetadata ==
    [][(/\ ValidUpload(last')
        /\ last'.run.recv = "EOF"
        /\ last'.run.store # "nil")
       => (/\ last'.status # "OK"
           /\ artifacts' = artifacts
           /\ tags' = tags)]_vars

\* a tagged Upload has failed in Store on a registry that holds another
\* artifact, and its content has no row
C13_StoreFailed ==
    /\ last.op = "Upload"
    /\ last.run.store # "nil"
    /\ last.status = "Internal"
    /\ last.reqTags # <<>>
    /\ artifacts # {}
    /\ RowsOf(artifacts, last.fqn, Sha256Hex(last.content)) = {}

\* C14: if the metadata insert fails after Store succeeded, Upload deletes
\* the blob (FQN, version_hash) and returns the insert's error whatever the
\* delete returned; no insert is made when the blob write has not succeeded
C14_InsertFailsCompensates ==
    [][/\ (/\ ValidUpload(last')
           /\ last'.run.recv = "EOF"
           /\ last'.run.store = "nil"
           /\ \/ last'.run.insert # "nil"
              \/ RowsOf(artifacts, last'.fqn, Sha256Hex(last'.content)) # {})
          => (/\ last'.status =
                    IF last'.run.insert # "nil" THEN "Internal"
                    ELSE "AlreadyExists"
              /\ artifacts' = artifacts
              /\ tags' = tags
              /\ last'.run.delete = "nil" =>
                    getArtifactKey(last'.fqn, Sha256Hex(last'.content))
                        \notin DOMAIN blobs')
       /\ (/\ ValidUpload(last')
           /\ \/ last'.run.recv # "EOF"
              \/ last'.run.store # "nil")
          => artifacts' = artifacts]_vars

\* an Upload whose insert failed has returned the insert's error although
\* the compensating delete failed too
C14_InsertAndDeleteFailed ==
    /\ last.op = "Upload"
    /\ last.run.insert # "nil"
    /\ last.run.delete # "nil"
    /\ last.status = "Internal"
    /\ getArtifactKey(last.fqn, Sha256Hex(last.content)) \in DOMAIN blobs
    /\ RowsOf(artifacts, last.fqn, Sha256Hex(last.content)) = {}

\* C15: an Upload whose first message is not metadata, or whose FQN is
\* missing or has an empty source, author or name, fails with
\* InvalidArgument and touches neither the backend nor the metadata store
C15_InvalidUpload ==
    [][(/\ last'.op = "Upload"
        /\ \/ last'.run.first # "metadata"
           \/ last'.fqn \in InvalidFQNs)
       => (/\ last'.status = "InvalidArgument"
           /\ artifacts' = artifacts
           /\ tags' = tags
           /\ blobs' = blobs)]_vars

\* an Upload with an empty author has been refused on a registry that
\* holds an artifact
C15_EmptyAuthorRefused ==
    /\ last.op = "Upload"
    /\ last.run.first = "metadata"
    /\ last.fqn \in InvalidFQNs
    /\ last.fqn.source # ""
    /\ last.fqn.author = ""
    /\ last.status = "InvalidArgument"
    /\ artifacts # {}

\* C16: if the stream is aborted or the context cancelled after the
\* metadata message, no Artifact row and no blob is created and Upload
\* returns Canceled
C16_AbortedUploadCanceled ==
    [][(/\ ValidUpload(last')
        /\ last'.run.recv # "EOF")
       => (/\ last'.status = "Canceled"
           /\ artifacts' = artifacts
           /\ blobs' = blobs)]_vars

\* C17: if the backend's Delete fails during Delete, no Artifact row and no
\* Tag row is modified and the error is returned to the caller
C17_BlobDeleteFailsKeepsMetadata ==
    [][(/\ last'.op = "Delete"
        /\ resolveIdentifier(artifacts, tags, last'.fqn, last'.id).err = "nil"
        /\ \/ last'.run.delete # "nil"
           \/ getArtifactKey(last'.fqn,
                  resolveIdentifier(artifacts, tags, last'.fqn, last'.id).hash)
                  \notin DOMAIN blobs)
       => (/\ last'.status = "Internal"
           /\ artifacts' = artifacts
           /\ tags' = tags
           /\ blobs' = blobs)]_vars

\* a Delete by tag has failed in the backend while the blob is in place
C17_DeleteFailedInBackend ==
    /\ last.op = "Delete"
    /\ last.run.delete # "nil"
    /\ last.id.kind = "tag"
    /\ last.status = "Internal"
    /\ LET a == GetArtifactMetaByTag(artifacts, tags, last.fqn, last.id.tag)
       IN  /\ a.err = "nil"
           /\ getArtifactKey(last.fqn, a.hash) \in DOMAIN blobs

\* C18: a successful Pull of a blob of n blocks with chunk size C sends
\* ceil(n/C) messages in offset order, all but the last of exactly C
\* blocks and the last of the remaining 1..C blocks; none when n = 0
C18_ChunkSizes ==
    [][(last'.op = "Pull" /\ last'.status = "OK")
       => LET content == blobs[getArtifactKey(last'.fqn, last'.versionHash)]
              n == Len(content)
              chunks == last'.chunks
              k == Len(chunks)
          IN  /\ k = (n + ChunkSize - 1) \div ChunkSize
              /\ \A i \in 1..k :
                    /\ chunks[i] = SubSeq(content, (i - 1) * ChunkSize + 1,
                                          IF i < k THEN i * ChunkSize ELSE n)
                    /\ Len(chunks[i]) \in 1..ChunkSize
                    /\ i < k => Len(chunks[i]) = ChunkSize
              /\ Concat(chunks) = content]_vars

\* a Pull has sent a content of one full chunk and a short last chunk
C18_FullAndShortChunk ==
    /\ last.op = "Pull"
    /\ last.status = "OK"
    /\ Len(last.chunks) = 2
    /\ Len(last.chunks[1]) = ChunkSize
    /\ Len(last.chunks[2]) < ChunkSize

PullsOf(A, fqn, hash) == (CHOOSE a \in RowsOf(A, fqn, hash) : TRUE).pulls

C20_PullCountMonotonic ==
    [][/\ \A b \in artifacts' : b.pulls >= 0
       /\ \A a \in artifacts : \A b \in artifacts' :
              (a.fqn = b.fqn /\ a.hash = b.hash) => b.pulls >= a.pulls]_vars

\* an Artifact row matches a query when its FQN equals every component the
\* query supplies
Matches(fqn, query) ==
    /\ query.source.present => fqn.source = query.source.value
    /\ query.author.present => fqn.author = query.author.value
    /\ query.name.present => fqn.name = query.name.value

\* C21: Query returns, with success, exactly the Artifact rows whose FQN
\* equals every supplied component (all rows when none is supplied), each
\* with its current tag set; an empty list when nothing matches
C21_QueryMatches ==
    [][(last'.op = "Query")
       => /\ last'.status = "OK"
          /\ last'.artifacts =
                {[fqn |-> a.fqn, hash |-> a.hash, pulls |-> a.pulls,
                  tags |-> TagNames(TagsOfArtifact(tags, a.fqn, a.hash))] :
                     a \in {r \in artifacts : Matches(r.fqn, last'.query)}}]_vars

\* C22: Get, Delete and Pull with a valid FQN and an identifier whose
\* version hash is empty, whose tag is empty, or that is missing fail with
\* InvalidArgument and change no state
C22_InvalidIdentifier ==
    [][(/\ last'.op \in {"Get", "Delete", "Pull"}
        /\ last'.id \in InvalidIdentifiers)
       => (/\ last'.status = "InvalidArgument"
           /\ UNCHANGED <<artifacts, tags, blobs>>)]_vars

\* C23: when the metadata store resolves the artifact and the blob backend
\* holds no blob at (FQN, hash), Pull and Delete fail with NotFound
C23_MissingBlobNotFound ==
    [][(/\ last'.op \in {"Pull", "Delete"}
        /\ resolveIdentifier(artifacts, tags, last'.fqn, last'.id).err = "nil"
        /\ getArtifactKey(last'.fqn,
               resolveIdentifier(artifacts, tags, last'.fqn, last'.id).hash)
             \notin DOMAIN blobs)
       => last'.status = "NotFound"]_vars

\* C24: on a server constructed without a blob backend, Pull, Upload,
\* Delete, Get, AddTag and RemoveTag with valid inputs fail with Unavailable
\* and change no state, and Query returns a successful empty list
C24_NoBackendUnavailable ==
    [][(blobs = NilRegistry)
       => /\ UNCHANGED <<artifacts, tags, blobs>>
          /\ last'.op \in {"Pull", "Upload", "Delete", "Get", "AddTag",
                           "RemoveTag", "Query"}
          /\ last'.op # "Query" => last'.status = "Unavailable"
          /\ last'.op = "Query" => /\ last'.status = "OK"
                                   /\ last'.artifacts = {}]_vars

\* AddTag of a free tag to an artifact the store holds was refused by a
\* server without a backend
C24_AddTagRefused ==
    /\ blobs = NilRegistry
    /\ last.op = "AddTag"
    /\ last.status = "Unavailable"
    /\ RowsOf(artifacts, last.fqn, last.id.hash) # {}
    /\ PriorHashes(tags, last.fqn, last.id.tag) = {}

\* C25: CreateArtifactMeta(FQN, hash, tags) is atomic. On success the
\* Artifact row and a Tag row for every listed tag exist, and every listed
\* tag points only to this hash; on failure of the artifact insert or of a
\* tag insert no Artifact row is added and every Tag row is as it was
C25_CreateAtomic ==
    [][(last'.op = "CreateArtifactMeta")
       => LET fqn == last'.fqn
              h == last'.versionHash
          IN  IF last'.status = "nil"
              THEN /\ artifacts' = artifacts \cup
                          {[fqn |-> fqn, hash |-> h, pulls |-> 0]}
                   /\ RowsOf(artifacts, fqn, h) = {}
                   /\ \A t \in Range(last'.reqTags) :
                          PriorHashes(tags', fqn, t) = {h}
                   /\ {t \in tags' : ~(t.fqn = fqn /\ t.tag \in Range(last'.reqTags))}
                        = {t \in tags : ~(t.fqn = fqn /\ t.tag \in Range(last'.reqTags))}
              ELSE /\ artifacts' = artifacts
                   /\ tags' = tags]_vars

\* a CreateArtifactMeta has failed on its second tag insert after its first
\* tag, which pointed to another hash of the FQN, had been moved
C25_FailedAfterMove ==
    /\ last.op = "CreateArtifactMeta"
    /\ last.status = "Database"
    /\ last.failAt = 2
    /\ PriorHashes(tags, last.fqn, last.reqTags[1]) # {}
    /\ last.versionHash \notin PriorHashes(tags, last.fqn, last.reqTags[1])
    /\ RowsOf(artifacts, last.fqn, last.versionHash) = {}

\* C26: two concurrent AddTag calls on one (FQN, tag) that name two
\* different hashes, both found to exist by the call's count, both complete
\* and leave exactly one Tag row for (FQN, tag), on the hash of one of them
C26_ConcurrentAddTag ==
    \A c1, c2 \in Clients :
        (/\ clients[c1].pc = "done" /\ clients[c2].pc = "done"
         /\ clients[c1].fqn = clients[c2].fqn
         /\ clients[c1].tag = clients[c2].tag
         /\ clients[c1].versionHash # clients[c2].versionHash
         /\ clients[c1].err # "NotFound" /\ clients[c2].err # "NotFound")
        => /\ clients[c1].err = "nil" /\ clients[c2].err = "nil"
           /\ Cardinality(PriorHashes(tags, clients[c1].fqn, clients[c1].tag)) = 1
           /\ PriorHashes(tags, clients[c1].fqn, clients[c1].tag) \subseteq
                  {clients[c1].versionHash, clients[c2].versionHash}

\* C27: AddTag(FQN, h, t) when (FQN, t) already points to h succeeds and
\* leaves the Tag rows unchanged, and a second AddTag of the same request
\* yields the state the first one gave
C27_AddTagIdempotent ==
    [][(last'.op = "AddTag")
       => LET fqn == last'.fqn
              h == last'.id.hash
              t == last'.id.tag
          IN  /\ [fqn |-> fqn, hash |-> h, tag |-> t] \in tags
                 => (last'.status = "nil" /\ tags' = tags)
              /\ last'.status = "nil"
                 => /\ DB_AddTag(artifacts', tags', fqn, h, t).err = "nil"
                    /\ DB_AddTag(artifacts', tags', fqn, h, t).tags = tags']_vars

\* an AddTag of a tag that was on the named hash has succeeded
C27_ReAdded ==
    /\ last.op = "AddTag"
    /\ last.status = "nil"
    /\ last.prior = {last.id.hash}
    /\ [fqn |-> last.fqn, hash |-> last.id.hash, tag |-> last.id.tag] \in tags

\* C28: content addressing of the blob backend. Store(FQN, content) followed
\* by Get(FQN, returned hash) returns exactly content; a second Store of the
\* same content under the FQN returns the same hash; a Store of different
\* content returns a different hash and both blobs stay retrievable with
\* their own content
C28_ContentAddressed ==
    [][(last'.op = "StoreArtifact")
       => LET fqn == last'.fqn
              h == last'.versionHash
          IN  /\ last'.status = "nil"
              /\ GetArtifact(blobs', fqn, h) =
                     [err |-> "nil", content |-> last'.content]
              /\ StoreArtifact(blobs', fqn, last'.content).versionHash = h
              /\ \A other \in Contents \ {last'.content} :
                    LET r == StoreArtifact(blobs', fqn, other)
                    IN  /\ r.versionHash # h
                        /\ GetArtifact(r.blobs, fqn, r.versionHash).content = other
                        /\ GetArtifact(r.blobs, fqn, h).content = last'.content
              /\ \A g \in Hashes \ {h} :
                    GetArtifact(blobs', fqn, g) = GetArtifact(blobs, fqn, g)]_vars

\* a second content has been stored under an FQN that held a blob of another
\* content
C28_TwoContentsStored ==
    /\ last.op = "StoreArtifact"
    /\ \E g \in Hashes \ {last.versionHash} :
           /\ GetArtifact(blobs, last.fqn, g).err = "nil"
           /\ GetArtifact(blobs, last.fqn, g).content # last.content

\* C29: blobs are keyed by (FQN, hash). Identical content stored under two
\* FQNs has one hash and two blobs, and Delete(FQN1, h) removes only the blob
\* of FQN1: Get(FQN2, h) and every other key are unchanged
C29_KeyedByFQNAndHash ==
    [][/\ (last'.op = "StoreArtifact")
          => \A fqn2 \in StoreFQNs \ {last'.fqn} :
                /\ StoreArtifact(blobs', fqn2, last'.content).versionHash =
                       last'.versionHash
                /\ getArtifactKey(fqn2, last'.versionHash) #
                       getArtifactKey(last'.fqn, last'.versionHash)
                /\ GetArtifact(blobs', fqn2, last'.versionHash) =
                       GetArtifact(blobs, fqn2, last'.versionHash)
       /\ (last'.op = "DeleteArtifact" /\ last'.status = "nil")
          => /\ DOMAIN blobs' =
                    DOMAIN blobs \ {getArtifactKey(last'.fqn, last'.versionHash)}
             /\ \A k \in DOMAIN blobs' : blobs'[k] = blobs[k]
             /\ \A fqn2 \in StoreFQNs \ {last'.fqn} :
                    GetArtifact(blobs', fqn2, last'.versionHash) =
                        GetArtifact(blobs, fqn2, last'.versionHash)]_vars

\* the blob of one FQN has been deleted while another FQN holds a blob of
\* the same hash
C29_DeletedUnderOneFQN ==
    /\ last.op = "DeleteArtifact"
    /\ last.status = "nil"
    /\ \E fqn2 \in StoreFQNs \ {last.fqn} :
           GetArtifact(blobs, fqn2, last.versionHash).err = "nil"

\* C30: Delete(FQN, h) of a key that holds no blob returns an error and
\* changes nothing; after a successful Delete(FQN, h), Get(FQN, h) fails with
\* the backend's not-found error and a second Delete(FQN, h) fails
C30_DeleteAbsentFails ==
    [][(last'.op = "DeleteArtifact")
       => LET key == getArtifactKey(last'.fqn, last'.versionHash)
          IN  /\ key \notin DOMAIN blobs
                 => (last'.status # "nil" /\ blobs' = blobs)
              /\ key \in DOMAIN blobs => last'.status = "nil"
              /\ last'.status = "nil"
                 => /\ GetArtifact(blobs', last'.fqn, last'.versionHash).err =
                           "ErrArtifactNotFound"
                    /\ DeleteArtifact(blobs', last'.fqn,
                                      last'.versionHash).err # "nil"]_vars

\* a Delete of a key that holds no blob has failed in a backend that holds
\* other blobs
C30_DeleteOfAbsentKey ==
    /\ last.op = "DeleteArtifact"
    /\ last.status # "nil"
    /\ DOMAIN blobs # {}

\* the final keys of the file system with their content
FinalBlobs(B) == [k \in DOMAIN B \ {TempPath(name) : name \in TempNames} |-> B[k]]

\* C31: a Store that returns an error has made no object visible at a final
\* key: a blob appears at a final key only in the last step of a Store that
\* succeeds, and it is the whole content under the key of its hash
C31_NoPartialObject ==
    [][(FinalBlobs(blobs') # FinalBlobs(blobs))
       => \E c \in Clients :
             /\ clients[c].pc = "rename"
             /\ clients'[c].pc = "close"
             /\ clients'[c].returned = "nil"
             /\ FinalBlobs(blobs') =
                    WriteFile(FinalBlobs(blobs),
                              getArtifactKey(clients[c].fqn,
                                             Sha256Hex(clients[c].content)),
                              clients[c].content)]_vars

\* a Store whose rename failed has returned its error after another Store
\* had put a blob at a final key
C31_RenameFailed ==
    \E c \in Clients :
        /\ clients[c].pc = "done"
        /\ "fault" \in DOMAIN clients[c]
        /\ clients[c].fault = "rename"
        /\ clients[c].returned = "IOError"
        /\ DOMAIN FinalBlobs(blobs) # {}

\* C32: when the filesystem Store returns an error after its temp file was
\* created, the temp file has been removed from the uploads directory
C32_TempFileRemoved ==
    \A c \in Clients :
        (/\ clients[c].pc = "done"
         /\ "fault" \in DOMAIN clients[c]
         /\ clients[c].returned # "nil"
         /\ clients[c].fault # "create")
        => clients[c].temp \notin DOMAIN blobs

IsPrefix(s, t) == Len(s) <= Len(t) /\ s = SubSeq(t, 1, Len(s))

\* C33: once UploadArtifact has left its body by any return statement, the
\* producer goroutine that runs StoreArtifact eventually ends
C33_ProducerTerminates ==
    (clients[Uploader].pc \in {"defer", "done"})
        ~> ("ppc" \in DOMAIN clients[Uploader] /\
            clients[Uploader].ppc = "done")

\* the handler has returned at a receive error while the producer is still
\* running
C33_ReturnedBeforeProducer ==
    /\ clients[Uploader].pc = "defer"
    /\ clients[Uploader].end = "RecvError"
    /\ clients[Uploader].msgs = <<>>
    /\ clients[Uploader].ppc = "store"

\* C34: the bytes StoreArtifact has read from the pipe are always a prefix
\* of the concatenation of the chunks the stream delivered, in order, and
\* when it has seen end-of-input they are all of them: the stream is at its
\* end, and what StoreArtifact hashes and stores is the whole content
C34_PipeKeepsOrder ==
    LET u == clients[Uploader]
    IN  "read" \in DOMAIN u =>
            /\ IsPrefix(u.read, Concat(u.delivered))
            /\ u.stored.err = "nil" =>
                   /\ u.read = Concat(u.delivered)
                   /\ u.msgs = <<>> /\ u.end = "EOF"
                   /\ u.read = u.content
                   /\ u.stored.versionHash = Sha256Hex(u.content)
                   /\ u.ppc = "send" =>
                          GetArtifact(blobs, u.fqn,
                                      u.stored.versionHash).content = u.content

\* StoreArtifact has seen end-of-input after two chunks
C34_TwoChunksRead ==
    LET u == clients[Uploader]
    IN  /\ "read" \in DOMAIN u
        /\ u.stored.err = "nil"
        /\ Len(u.delivered) = 2

\* StoreArtifact has returned its own error
StoreFailed ==
    /\ "stored" \in DOMAIN clients[Uploader]
    /\ clients[Uploader].stored.err = "IOError"

\* C36: when StoreArtifact returns an error before it has consumed the
\* pipe, the handler still returns, and on a stream that ends with EOF and
\* is not cancelled it returns the error of StoreArtifact
C36_EarlyStoreFailure ==
    /\ [](StoreFailed /\ clients[Uploader].pc = "defer" /\
          clients[Uploader].end = "EOF" /\ ~clients[Uploader].cancelled
          => /\ clients[Uploader].result.err = "IOError"
             /\ clients[Uploader].status = wrapServiceError("IOError"))
    /\ StoreFailed ~> (clients[Uploader].pc = "done")

\* the handler has returned Internal after StoreArtifact failed before
\* reading and the stream delivered two chunks and EOF
C36_FailedBeforeReading ==
    LET u == clients[Uploader]
    IN  /\ u.pc = "done"
        /\ u.fault = "early"
        /\ Len(u.delivered) = 2
        /\ u.end = "EOF"
        /\ u.result.err = "IOError"
        /\ u.status = "Internal"

\* C35: an Upload that returns an error leaves the Artifact rows, the Tag
\* rows and the blobs as they were when it began
C35_FailedUploadChangesNothing ==
    [][(last'.op = "Upload" /\ last'.status # "OK")
       => (artifacts' = artifacts /\ tags' = tags /\ blobs' = blobs)]_vars

\* C38: Get and Query change no state; AddTag and RemoveTag change only Tag
\* rows; a successful Pull changes only the pulls_count of the artifact it
\* resolved
C38_Frame ==
    [][/\ last'.op \in {"Get", "Query"}
          => (artifacts' = artifacts /\ tags' = tags /\ blobs' = blobs)
       /\ last'.op \in {"AddTag", "RemoveTag"}
          => (artifacts' = artifacts /\ blobs' = blobs)
       /\ (last'.op = "Pull" /\ last'.status = "OK")
          => /\ tags' = tags
             /\ blobs' = blobs
             /\ {[fqn |-> a.fqn, hash |-> a.hash] : a \in artifacts'} =
                    {[fqn |-> a.fqn, hash |-> a.hash] : a \in artifacts}
             /\ \A a \in artifacts :
                    (a.fqn # last'.fqn \/ a.hash # last'.versionHash)
                    => a \in artifacts']_vars

\* a Pull has succeeded while a second artifact with a pull count of its
\* own and a tag is stored
C38_PullBesideOther ==
    /\ last.op = "Pull"
    /\ last.status = "OK"
    /\ \E a \in artifacts : a.hash # last.versionHash /\ a.pulls > 0
    /\ tags # {}

\* C37: when a Delete has succeeded while a Pull of the same artifact was
\* running, and the Pull has finished, no Artifact row and no Tag row of
\* the deleted artifact exists
C37_NoRowAfterDelete ==
    (/\ last.op = "Delete"
     /\ last.status = "OK"
     /\ \E c \in Clients :
           /\ clients[c].pc = "done"
           /\ clients[c].status = "OK"
           /\ clients[c].fqn = last.fqn
           /\ clients[c].versionHash = last.versionHash)
    => /\ RowsOf(artifacts, last.fqn, last.versionHash) = {}
       /\ TagsOfArtifact(tags, last.fqn, last.versionHash) = {}

\* C39: a Pull by tag that succeeds has streamed the bytes of a hash the
\* tag pointed to when the Pull began, and its pull count goes to that
\* artifact alone, wherever the tag points when the Pull ends
C39_TagResolvedOnce ==
    [][\A c \in TagPullers :
          (/\ "sent" \in DOMAIN clients[c]
           /\ clients[c].pc = "send"
           /\ clients'[c].pc = "done")
          => LET h == clients[c]
             IN  /\ h.versionHash \in h.prior
                 /\ Sha256Hex(Concat(h.sent)) = h.versionHash
                 /\ PullsOf(artifacts', h.fqn, h.versionHash) =
                        PullsOf(artifacts, h.fqn, h.versionHash) + 1
                 /\ \A a \in artifacts :
                        a.hash # h.versionHash => a \in artifacts']_vars

\* a Pull by tag has finished and counted after the tag was moved to the
\* other artifact
C39_TagMovedDuringPull ==
    \E c \in TagPullers :
        /\ "sent" \in DOMAIN clients[c]
        /\ clients[c].pc = "done"
        /\ clients[c].status = "OK"
        /\ Len(clients[c].sent) = 2
        /\ PriorHashes(tags, clients[c].fqn, clients[c].tag) # {}
        /\ clients[c].versionHash \notin
               PriorHashes(tags, clients[c].fqn, clients[c].tag)

====
